---- MODULE Spec2Model ----
(***************************************************************************)
(* The LRcom signaling hub (src/unnamed/part_000): the session registry,   *)
(* the name index, the room registry, the push subscription store and the  *)
(* WebSocket handlers that mutate them.  Node runs every handler to        *)
(* completion on one event loop, so one action is one handler invocation   *)
(* and a state of the model is a frame boundary.                           *)
(*                                                                         *)
(* Strings are sequences of one-character strings, so that trim, length    *)
(* and the character class tests are computed as the code computes them.   *)
(***************************************************************************)
EXTENDS Integers, Sequences, FiniteSets, TLC

\* ------------------------------------------------------------------ bounds
\* makeId() returns a fresh 96-bit random value.  Session ids are 1..MaxConn
\* in the order of the connections and are never reused.  A room id is any id
\* that no table refers to (a deleted room leaves no trace, so its id is as
\* good as a new random one): at most MaxRooms room ids are in use at a time.
MaxConn == 3
MaxRooms == 2
\* at most MaxClosing live sessions at a time have a channel that has left OPEN
MaxClosing == 1

Ids == 1..MaxConn
RoomIds == 1..MaxRooms

\* null / undefined in the place of a session id, a room id or a name
NoId == 0
NoRoom == 0
NoName == <<>>

\* ------------------------------------------------------------------ strings
Str(s) == [isString |-> TRUE, chars |-> s]
NotString == [isString |-> FALSE, chars |-> <<>>]

\* the characters String.prototype.trim removes (those the model's inputs use)
WhiteSpace == {" ", "\t", "\n", "\r", "\f"}

RECURSIVE TrimLeft(_)
TrimLeft(s) ==
  IF s # <<>> /\ Head(s) \in WhiteSpace THEN TrimLeft(Tail(s)) ELSE s

RECURSIVE TrimRight(_)
TrimRight(s) ==
  IF s # <<>> /\ s[Len(s)] \in WhiteSpace
  THEN TrimRight(SubSeq(s, 1, Len(s) - 1))
  ELSE s

Trim(s) == TrimRight(TrimLeft(s))

\* /^[a-zA-Z0-9 _\-\.]+$/
NameClass ==
  {"a","b","c","d","e","f","g","h","i","j","k","l","m",
   "n","o","p","q","r","s","t","u","v","w","x","y","z",
   "A","B","C","D","E","F","G","H","I","J","K","L","M",
   "N","O","P","Q","R","S","T","U","V","W","X","Y","Z",
   "0","1","2","3","4","5","6","7","8","9"," ","_","-","."}

MaxNameLen == 32

\* safeName without the trim, to tell the two apart
safeNameNoTrim(input) ==
  IF ~input.isString THEN NoName
  ELSE IF Len(input.chars) < 1 \/ Len(input.chars) > MaxNameLen THEN NoName
  ELSE IF \E i \in 1..Len(input.chars) : input.chars[i] \notin NameClass THEN NoName
  ELSE input.chars

\* safeName(input): the canonical name, or NoName for null
safeName(input) ==
  IF ~input.isString THEN NoName
  ELSE LET trimmed == Trim(input.chars) IN
       IF Len(trimmed) < 1 \/ Len(trimmed) > MaxNameLen THEN NoName
       ELSE IF \E i \in 1..Len(trimmed) : trimmed[i] \notin NameClass THEN NoName
       ELSE trimmed

\* ------------------------------------------------------------------ state
VARIABLES
  users,              \* Map id -> { name, roomId, ws }; ready is ws.readyState === 1
  nameToId,           \* Map name -> id
  rooms,              \* Map roomId -> members, a Set of ids
  pushSubscriptions,  \* Map id -> subscription
  pushEnabled,        \* PUSH_ENABLED, fixed at start-up
  nextId,             \* how many session ids makeId() has handed out
  last,               \* the handler invocation that produced this state
  sent,               \* the frames that invocation wrote, in order
  pushed,             \* the sendPushToUser calls that invocation made, in order
  prev,               \* the four tables as they were when that invocation began
  now,                \* Date.now(), in milliseconds since start-up
  rl,                 \* id -> user._rl, the rate limiter's window and counter
  probe,              \* an observer's count of the frames passed in one interval
  invited,            \* id -> the incomingCall the client has still to answer
  told,               \* the pairs <<x, y>>: x was sent roomPeerJoined with peer y
  inflight            \* the webpush.sendNotification calls not yet settled

tables == <<users, nameToId, rooms, pushSubscriptions>>
vars == <<users, nameToId, rooms, pushSubscriptions, pushEnabled, nextId,
          last, sent, pushed, prev, now, rl, probe, invited, told, inflight>>

Live == DOMAIN users

\* between two handler invocations
Idle == [op |-> "idle", id |-> NoId]

\* a Map with key k removed / set
MapDelete(m, k) == [x \in (DOMAIN m) \ {k} |-> m[x]]
MapSet(m, k, v) == [x \in (DOMAIN m) \cup {k} |-> IF x = k THEN v ELSE m[x]]

\* the live ids in Map (insertion) order: ids are handed out in increasing order
IdSeq == [i \in 1..MaxConn |-> i]
InOrder(S) == LET in(i) == i \in S IN SelectSeq(IdSeq, in)

RECURSIVE Concat(_)
Concat(ss) == IF ss = <<>> THEN <<>> ELSE Head(ss) \o Concat(Tail(ss))

\* send(ws, obj): written only when the channel is open
send(U, to, frame) ==
  IF to \in DOMAIN U /\ U[to].ready THEN << [to |-> to] @@ frame >> ELSE <<>>

\* broadcastPresence(): every user (named or not) is listed and every open
\* channel (named or not) is written
PresenceList(U) ==
  LET ord == InOrder(DOMAIN U) IN
  [i \in 1..Len(ord) |->
     [id |-> ord[i], name |-> U[ord[i]].name, busy |-> U[ord[i]].roomId # NoRoom]]

broadcastPresence(U) ==
  LET ord == InOrder(DOMAIN U) IN
  Concat([i \in 1..Len(ord) |->
     send(U, ord[i], [type |-> "presence", users |-> PresenceList(U)])])

\* broadcastSystem(text): every named user with an open channel
broadcastSystem(U, text) ==
  LET ord == InOrder(DOMAIN U) IN
  Concat([i \in 1..Len(ord) |->
     IF U[ord[i]].name = NoName THEN <<>>
     ELSE send(U, ord[i], [type |-> "chat", from |-> NoId, fromName |-> "System",
                           text |-> text, private |-> FALSE])])

\* ------------------------------------------------------------------ rooms
\* A loop over a Set or a Map writes at most one frame per member, so the
\* order of the loop is the order of frames to different sessions, which no
\* session observes: the model loops in increasing id order.

\* the result of a helper or handler: the tables after it and what it wrote
Eff(U, N, R, P, out, push) ==
  [users |-> U, nameToId |-> N, rooms |-> R, pushSubscriptions |-> P,
   sent |-> out, pushed |-> push]

\* a handler that only replies to the sender
Reply(u, frame) ==
  Eff(users, nameToId, rooms, pushSubscriptions, send(users, u, frame), <<>>)

Silent == Eff(users, nameToId, rooms, pushSubscriptions, <<>>, <<>>)

\* getRoom(roomId) !== undefined
hasRoom(R, rid) == rid # NoRoom /\ rid \in DOMAIN R

\* ensureRoom(roomId)
ensureRoom(R, rid) == IF rid \in DOMAIN R THEN R ELSE MapSet(R, rid, {})

\* the roomPeerLeft loop of leaveRoom
PeerLeftFrames(U, members, rid, u) ==
  LET ord == InOrder(members) IN
  Concat([i \in 1..Len(ord) |->
     send(U, ord[i], [type |-> "roomPeerLeft", roomId |-> rid, peerId |-> u])])

\* leaveRoom without the dissolution of a room of one, to tell the two apart
leaveRoomKeepsSmallRoom(U, R, u) ==
  LET rid == U[u].roomId
      U1 == [U EXCEPT ![u].roomId = NoRoom]
  IN IF rid = NoRoom THEN [users |-> U, rooms |-> R, out |-> <<>>]
     ELSE IF rid \notin DOMAIN R THEN [users |-> U1, rooms |-> R, out |-> <<>>]
     ELSE [users |-> U1, rooms |-> [R EXCEPT ![rid] = R[rid] \ {u}],
           out |-> PeerLeftFrames(U1, R[rid] \ {u}, rid, u)]

\* leaveRoom that deletes the room and leaves the last member linked to it
leaveRoomForgetsLast(U, R, u) ==
  LET rid == U[u].roomId
      U1 == [U EXCEPT ![u].roomId = NoRoom]
  IN IF rid = NoRoom THEN [users |-> U, rooms |-> R, out |-> <<>>]
     ELSE IF rid \notin DOMAIN R THEN [users |-> U1, rooms |-> R, out |-> <<>>]
     ELSE
       LET members == R[rid] \ {u}
           left == PeerLeftFrames(U1, members, rid, u)
       IN IF Cardinality(members) <= 1
          THEN [users |-> U1, rooms |-> MapDelete(R, rid), out |-> left]
          ELSE [users |-> U1, rooms |-> [R EXCEPT ![rid] = members], out |-> left]

\* leaveRoom(user): the users and rooms after it, and the frames it wrote
leaveRoom(U, R, u) ==
  LET rid == U[u].roomId
      U1 == [U EXCEPT ![u].roomId = NoRoom]
  IN IF rid = NoRoom THEN [users |-> U, rooms |-> R, out |-> <<>>]
     ELSE IF rid \notin DOMAIN R THEN [users |-> U1, rooms |-> R, out |-> <<>>]
     ELSE
       LET members == R[rid] \ {u}
           left == PeerLeftFrames(U1, members, rid, u)
       IN IF Cardinality(members) <= 1
          THEN LET lastLive == members \cap DOMAIN U1
                   U2 == [i \in DOMAIN U1 |->
                            IF i \in lastLive THEN [U1[i] EXCEPT !.roomId = NoRoom] ELSE U1[i]]
                   ended == Concat([i \in 1..Len(InOrder(lastLive)) |->
                              send(U1, InOrder(lastLive)[i],
                                   [type |-> "callEnded", reason |-> "alone"])])
               IN [users |-> U2, rooms |-> MapDelete(R, rid), out |-> left \o ended]
          ELSE [users |-> U1, rooms |-> [R EXCEPT ![rid] = members], out |-> left]

\* ------------------------------------------------------------------ push
NoSub == "none"
Subs == {"s1", "s2"}

\* sendPushToUser(userId, payload) up to its await: the call, and the
\* subscription handed to the gateway (NoSub when it returns early)
sendPushToUser(P, userId, tag) ==
  << [id |-> userId, tag |-> tag,
      sub |-> IF pushEnabled /\ userId \in DOMAIN P THEN P[userId] ELSE NoSub] >>

\* ------------------------------------------------------------------ texts
Joined == <<" ", "j", "o", "i", "n", "e", "d", ".">>
Left == <<" ", "l", "e", "f", "t", ".">>

\* ------------------------------------------------------------------ closeUser
\* closeUser without nameToId.delete(name), to tell the two apart
closeUserKeepsName(userId) ==
  IF userId \notin DOMAIN users THEN Silent
  ELSE
    LET lr == IF users[userId].roomId # NoRoom
              THEN leaveRoom(users, rooms, userId)
              ELSE [users |-> users, rooms |-> rooms, out |-> <<>>]
        U == MapDelete(lr.users, userId)
    IN Eff(U, nameToId, lr.rooms, MapDelete(pushSubscriptions, userId),
           lr.out \o broadcastPresence(U), <<>>)

\* closeUser with the presence broadcast ahead of the System chat
closeUserPresenceFirst(userId) ==
  IF userId \notin DOMAIN users THEN Silent
  ELSE
    LET name == users[userId].name
        lr == IF users[userId].roomId # NoRoom
              THEN leaveRoom(users, rooms, userId)
              ELSE [users |-> users, rooms |-> rooms, out |-> <<>>]
        U == MapDelete(lr.users, userId)
        N == IF name # NoName /\ name \in DOMAIN nameToId /\ nameToId[name] = userId
             THEN MapDelete(nameToId, name)
             ELSE nameToId
    IN Eff(U, N, lr.rooms, MapDelete(pushSubscriptions, userId),
           lr.out
             \o broadcastPresence(U)
             \o (IF name # NoName THEN broadcastSystem(U, name \o Left) ELSE <<>>),
           <<>>)

\* closeUser without the early return for an id that is gone
closeUserAlwaysAnnounces(userId) ==
  LET name == IF userId \in DOMAIN users THEN users[userId].name ELSE NoName
      lr == IF userId \in DOMAIN users /\ users[userId].roomId # NoRoom
            THEN leaveRoom(users, rooms, userId)
            ELSE [users |-> users, rooms |-> rooms, out |-> <<>>]
      U == MapDelete(lr.users, userId)
      N == IF name # NoName /\ name \in DOMAIN nameToId /\ nameToId[name] = userId
           THEN MapDelete(nameToId, name)
           ELSE nameToId
  IN Eff(U, N, lr.rooms, MapDelete(pushSubscriptions, userId),
         lr.out
           \o (IF name # NoName THEN broadcastSystem(U, name \o Left) ELSE <<>>)
           \o broadcastPresence(U),
         <<>>)

closeUser(userId) ==
  IF userId \notin DOMAIN users THEN Silent
  ELSE
    LET name == users[userId].name
        lr == IF users[userId].roomId # NoRoom
              THEN leaveRoom(users, rooms, userId)
              ELSE [users |-> users, rooms |-> rooms, out |-> <<>>]
        U == MapDelete(lr.users, userId)
        N == IF name # NoName /\ name \in DOMAIN nameToId /\ nameToId[name] = userId
             THEN MapDelete(nameToId, name)
             ELSE nameToId
    IN Eff(U, N, lr.rooms, MapDelete(pushSubscriptions, userId),
           lr.out
             \o (IF name # NoName THEN broadcastSystem(U, name \o Left) ELSE <<>>)
             \o broadcastPresence(U),
           <<>>)

\* ------------------------------------------------------------------ handlers
\* setName without the test of the existing holder
OnSetNameNoTakenCheck(u, msg) ==
  LET name == safeName(msg.name) IN
  IF name = NoName
  THEN Reply(u, [type |-> "nameResult", ok |-> FALSE, reason |-> "invalid"])
  ELSE
    LET U == [users EXCEPT ![u].name = name] IN
    Eff(U, MapSet(nameToId, name, u), rooms, pushSubscriptions,
        send(U, u, [type |-> "nameResult", ok |-> TRUE, name |-> name])
          \o broadcastSystem(U, name \o Joined)
          \o broadcastPresence(U),
        <<>>)

\* setName without the release of the old name
OnSetNameKeepsOldName(u, msg) ==
  LET name == safeName(msg.name) IN
  IF name = NoName
  THEN Reply(u, [type |-> "nameResult", ok |-> FALSE, reason |-> "invalid"])
  ELSE IF name \in DOMAIN nameToId /\ nameToId[name] # u
  THEN Reply(u, [type |-> "nameResult", ok |-> FALSE, reason |-> "taken"])
  ELSE
    LET U == [users EXCEPT ![u].name = name] IN
    Eff(U, MapSet(nameToId, name, u), rooms, pushSubscriptions,
        send(U, u, [type |-> "nameResult", ok |-> TRUE, name |-> name])
          \o broadcastSystem(U, name \o Joined)
          \o broadcastPresence(U),
        <<>>)

\* setName with the presence list taken before the name is set
OnSetNameStalePresence(u, msg) ==
  LET name == safeName(msg.name) IN
  IF name = NoName
  THEN Reply(u, [type |-> "nameResult", ok |-> FALSE, reason |-> "invalid"])
  ELSE IF name \in DOMAIN nameToId /\ nameToId[name] # u
  THEN Reply(u, [type |-> "nameResult", ok |-> FALSE, reason |-> "taken"])
  ELSE
    LET old == users[u].name
        N1 == IF old # NoName /\ old \in DOMAIN nameToId /\ nameToId[old] = u
              THEN MapDelete(nameToId, old)
              ELSE nameToId
        U == [users EXCEPT ![u].name = name]
    IN Eff(U, MapSet(N1, name, u), rooms, pushSubscriptions,
           send(U, u, [type |-> "nameResult", ok |-> TRUE, name |-> name])
             \o broadcastSystem(U, name \o Joined)
             \o broadcastPresence(users),
           <<>>)

\* setName that takes every index entry for the name as another session's
OnSetNameNoSelfTest(u, msg) ==
  LET name == safeName(msg.name) IN
  IF name = NoName
  THEN Reply(u, [type |-> "nameResult", ok |-> FALSE, reason |-> "invalid"])
  ELSE IF name \in DOMAIN nameToId
  THEN Reply(u, [type |-> "nameResult", ok |-> FALSE, reason |-> "taken"])
  ELSE
    LET old == users[u].name
        N1 == IF old # NoName /\ old \in DOMAIN nameToId /\ nameToId[old] = u
              THEN MapDelete(nameToId, old)
              ELSE nameToId
        U == [users EXCEPT ![u].name = name]
    IN Eff(U, MapSet(N1, name, u), rooms, pushSubscriptions,
           send(U, u, [type |-> "nameResult", ok |-> TRUE, name |-> name])
             \o broadcastSystem(U, name \o Joined)
             \o broadcastPresence(U),
           <<>>)

\* setName
OnSetName(u, msg) ==
  LET name == safeName(msg.name) IN
  IF name = NoName
  THEN Reply(u, [type |-> "nameResult", ok |-> FALSE, reason |-> "invalid"])
  ELSE IF name \in DOMAIN nameToId /\ nameToId[name] # u
  THEN Reply(u, [type |-> "nameResult", ok |-> FALSE, reason |-> "taken"])
  ELSE
    LET old == users[u].name
        N1 == IF old # NoName /\ old \in DOMAIN nameToId /\ nameToId[old] = u
              THEN MapDelete(nameToId, old)
              ELSE nameToId
        U == [users EXCEPT ![u].name = name]
    IN Eff(U, MapSet(N1, name, u), rooms, pushSubscriptions,
           send(U, u, [type |-> "nameResult", ok |-> TRUE, name |-> name])
             \o broadcastSystem(U, name \o Joined)
             \o broadcastPresence(U),
           <<>>)

\* pushSubscribe without the test of PUSH_ENABLED
OnPushSubscribeAlways(u, msg) ==
  IF msg.subscription # NoSub
  THEN Eff(users, nameToId, rooms, MapSet(pushSubscriptions, u, msg.subscription),
           <<>>, <<>>)
  ELSE Silent

\* pushSubscribe / pushUnsubscribe
OnPushSubscribe(u, msg) ==
  IF ~pushEnabled THEN Silent
  ELSE IF msg.subscription # NoSub
  THEN Eff(users, nameToId, rooms, MapSet(pushSubscriptions, u, msg.subscription),
           <<>>, <<>>)
  ELSE Silent

OnPushUnsubscribe(u, msg) ==
  Eff(users, nameToId, rooms, MapDelete(pushSubscriptions, u), <<>>, <<>>)

\* makeId() for a room: an id no table refers to (MaxRooms + 1 when the
\* model has none left)
UsedRoomIds == (DOMAIN rooms) \cup {users[i].roomId : i \in Live}
makeRoomId ==
  LET free == RoomIds \ UsedRoomIds IN
  IF free = {} THEN MaxRooms + 1 ELSE CHOOSE r \in free : \A q \in free : r <= q

\* callStart with the busy test ahead of the self test
OnCallStartBusyFirst(u, msg) ==
  LET to == msg.to IN
  IF to = NoId \/ to \notin Live
  THEN Reply(u, [type |-> "callStartResult", ok |-> FALSE, reason |-> "not_found"])
  ELSE IF users[to].roomId # NoRoom
  THEN Reply(u, [type |-> "callStartResult", ok |-> FALSE, reason |-> "busy"])
  ELSE IF to = u
  THEN Reply(u, [type |-> "callStartResult", ok |-> FALSE, reason |-> "self"])
  ELSE IF users[to].name = NoName
  THEN Reply(u, [type |-> "callStartResult", ok |-> FALSE, reason |-> "not_ready"])
  ELSE
    LET rid == IF users[u].roomId = NoRoom THEN makeRoomId ELSE users[u].roomId
        R0 == ensureRoom(rooms, rid)
        R == [R0 EXCEPT ![rid] = @ \cup {u, to}]
        U == [users EXCEPT ![u].roomId = rid, ![to].roomId = rid]
    IN Eff(U, nameToId, R, pushSubscriptions,
           send(U, to, [type |-> "incomingCall", from |-> u,
                        fromName |-> users[u].name, roomId |-> rid])
             \o send(U, u, [type |-> "callStartResult", ok |-> TRUE])
             \o broadcastPresence(U),
           sendPushToUser(pushSubscriptions, to, "lrcom-call"))

\* callStart that takes the caller out of its room into a new one
OnCallStartAlwaysNewRoom(u, msg) ==
  LET to == msg.to IN
  IF to = NoId \/ to \notin Live
  THEN Reply(u, [type |-> "callStartResult", ok |-> FALSE, reason |-> "not_found"])
  ELSE IF to = u
  THEN Reply(u, [type |-> "callStartResult", ok |-> FALSE, reason |-> "self"])
  ELSE IF users[to].name = NoName
  THEN Reply(u, [type |-> "callStartResult", ok |-> FALSE, reason |-> "not_ready"])
  ELSE IF users[to].roomId # NoRoom
  THEN Reply(u, [type |-> "callStartResult", ok |-> FALSE, reason |-> "busy"])
  ELSE
    LET rid == makeRoomId
        R0 == ensureRoom(rooms, rid)
        R == [R0 EXCEPT ![rid] = @ \cup {u, to}]
        U == [users EXCEPT ![u].roomId = rid, ![to].roomId = rid]
    IN Eff(U, nameToId, R, pushSubscriptions,
           send(U, to, [type |-> "incomingCall", from |-> u,
                        fromName |-> users[u].name, roomId |-> rid])
             \o send(U, u, [type |-> "callStartResult", ok |-> TRUE])
             \o broadcastPresence(U),
           sendPushToUser(pushSubscriptions, to, "lrcom-call"))

\* callStart without the test of the callee's name
OnCallStartNoNameTest(u, msg) ==
  LET to == msg.to IN
  IF to = NoId \/ to \notin Live
  THEN Reply(u, [type |-> "callStartResult", ok |-> FALSE, reason |-> "not_found"])
  ELSE IF to = u
  THEN Reply(u, [type |-> "callStartResult", ok |-> FALSE, reason |-> "self"])
  ELSE IF users[to].roomId # NoRoom
  THEN Reply(u, [type |-> "callStartResult", ok |-> FALSE, reason |-> "busy"])
  ELSE
    LET rid == IF users[u].roomId = NoRoom THEN makeRoomId ELSE users[u].roomId
        R0 == ensureRoom(rooms, rid)
        R == [R0 EXCEPT ![rid] = @ \cup {u, to}]
        U == [users EXCEPT ![u].roomId = rid, ![to].roomId = rid]
    IN Eff(U, nameToId, R, pushSubscriptions,
           send(U, to, [type |-> "incomingCall", from |-> u,
                        fromName |-> users[u].name, roomId |-> rid])
             \o send(U, u, [type |-> "callStartResult", ok |-> TRUE])
             \o broadcastPresence(U),
           sendPushToUser(pushSubscriptions, to, "lrcom-call"))

\* callStart
OnCallStart(u, msg) ==
  LET to == msg.to IN
  IF to = NoId \/ to \notin Live
  THEN Reply(u, [type |-> "callStartResult", ok |-> FALSE, reason |-> "not_found"])
  ELSE IF to = u
  THEN Reply(u, [type |-> "callStartResult", ok |-> FALSE, reason |-> "self"])
  ELSE IF users[to].name = NoName
  THEN Reply(u, [type |-> "callStartResult", ok |-> FALSE, reason |-> "not_ready"])
  ELSE IF users[to].roomId # NoRoom
  THEN Reply(u, [type |-> "callStartResult", ok |-> FALSE, reason |-> "busy"])
  ELSE
    LET rid == IF users[u].roomId = NoRoom THEN makeRoomId ELSE users[u].roomId
        R0 == ensureRoom(rooms, rid)
        R == [R0 EXCEPT ![rid] = @ \cup {u, to}]
        U == [users EXCEPT ![u].roomId = rid, ![to].roomId = rid]
    IN Eff(U, nameToId, R, pushSubscriptions,
           send(U, to, [type |-> "incomingCall", from |-> u,
                        fromName |-> users[u].name, roomId |-> rid])
             \o send(U, u, [type |-> "callStartResult", ok |-> TRUE])
             \o broadcastPresence(U),
           sendPushToUser(pushSubscriptions, to, "lrcom-call"))

\* the room id a callReject / callAccept frame names: msg.roomId when it is a
\* string, else the sender's own roomId
FrameRoom(u, msg) == IF msg.roomId # NoRoom THEN msg.roomId ELSE users[u].roomId

\* the three early returns of callAccept: user.roomId = null; broadcastPresence()
ClearOwnRoomId(u, out) ==
  LET U == [users EXCEPT ![u].roomId = NoRoom] IN
  Eff(U, nameToId, rooms, pushSubscriptions, out \o broadcastPresence(U), <<>>)

\* callReject
OnCallReject(u, msg) ==
  LET rid == FrameRoom(u, msg)
      rejected == IF msg.from # NoId
                  THEN send(users, msg.from, [type |-> "callRejected", reason |-> "rejected"])
                  ELSE <<>>
  IN IF rid # NoRoom /\ users[u].roomId = rid
     THEN LET lr == leaveRoom(users, rooms, u) IN
          Eff(lr.users, nameToId, lr.rooms, pushSubscriptions,
              rejected \o lr.out \o broadcastPresence(lr.users), <<>>)
     ELSE ClearOwnRoomId(u, rejected)

\* callAccept without the test of the accepter's own roomId
OnCallAcceptAnyRoom(u, msg) ==
  LET rid == FrameRoom(u, msg) IN
  IF msg.from = NoId \/ msg.from \notin Live THEN ClearOwnRoomId(u, <<>>)
  ELSE IF rid = NoRoom \/ users[msg.from].roomId # rid
  THEN ClearOwnRoomId(u, <<>>)
  ELSE IF ~hasRoom(rooms, rid) THEN ClearOwnRoomId(u, <<>>)
  ELSE
    LET others == InOrder(rooms[rid] \ {u})
        liveOthers == InOrder((rooms[rid] \ {u}) \cap Live)
        joined == Concat([i \in 1..Len(others) |->
                    send(users, others[i],
                         [type |-> "roomPeerJoined", roomId |-> rid,
                          peer |-> [id |-> u, name |-> users[u].name]])])
        peers == [i \in 1..Len(liveOthers) |->
                    [id |-> liveOthers[i], name |-> users[liveOthers[i]].name]]
    IN Eff(users, nameToId, rooms, pushSubscriptions,
           joined \o send(users, u, [type |-> "roomPeers", roomId |-> rid, peers |-> peers]),
           <<>>)

\* callAccept
OnCallAccept(u, msg) ==
  LET rid == FrameRoom(u, msg) IN
  IF msg.from = NoId \/ msg.from \notin Live THEN ClearOwnRoomId(u, <<>>)
  ELSE IF rid = NoRoom \/ users[msg.from].roomId # rid \/ users[u].roomId # rid
  THEN ClearOwnRoomId(u, <<>>)
  ELSE IF ~hasRoom(rooms, rid) THEN ClearOwnRoomId(u, <<>>)
  ELSE
    LET others == InOrder(rooms[rid] \ {u})
        liveOthers == InOrder((rooms[rid] \ {u}) \cap Live)
        joined == Concat([i \in 1..Len(others) |->
                    send(users, others[i],
                         [type |-> "roomPeerJoined", roomId |-> rid,
                          peer |-> [id |-> u, name |-> users[u].name]])])
        peers == [i \in 1..Len(liveOthers) |->
                    [id |-> liveOthers[i], name |-> users[liveOthers[i]].name]]
    IN Eff(users, nameToId, rooms, pushSubscriptions,
           joined \o send(users, u, [type |-> "roomPeers", roomId |-> rid, peers |-> peers]),
           <<>>)

\* signal without the same-room test
OnSignalAnyRoom(u, msg) ==
  IF msg.to = NoId \/ msg.to \notin Live THEN Silent
  ELSE Eff(users, nameToId, rooms, pushSubscriptions,
           send(users, msg.to, [type |-> "signal", from |-> u,
                                fromName |-> users[u].name, payload |-> msg.payload]),
           <<>>)

\* signal
OnSignal(u, msg) ==
  IF msg.to = NoId \/ msg.to \notin Live THEN Silent
  ELSE IF users[u].roomId = NoRoom \/ users[u].roomId # users[msg.to].roomId THEN Silent
  ELSE Eff(users, nameToId, rooms, pushSubscriptions,
           send(users, msg.to, [type |-> "signal", from |-> u,
                                fromName |-> users[u].name, payload |-> msg.payload]),
           <<>>)

\* callHangup with the presence broadcast ahead of leaveRoom
OnCallHangupPresenceFirst(u, msg) ==
  LET lr == leaveRoom(users, rooms, u) IN
  Eff(lr.users, nameToId, lr.rooms, pushSubscriptions,
      broadcastPresence(users) \o lr.out, <<>>)

\* callHangup
OnCallHangup(u, msg) ==
  LET lr == leaveRoom(users, rooms, u) IN
  Eff(lr.users, nameToId, lr.rooms, pushSubscriptions,
      lr.out \o broadcastPresence(lr.users), <<>>)

\* ------------------------------------------------------------------ chat
MaxChatLen == 500

\* /[\u0000-\u0008\u000B\u000C\u000E-\u001F\u007F]/ (those the model's inputs use)
ControlClass == {"\f"}

\* safeChatText without the test for control characters
safeChatTextNoControlTest(input) ==
  IF ~input.isString THEN <<>>
  ELSE LET trimmed == Trim(input.chars) IN
       IF Len(trimmed) < 1 \/ Len(trimmed) > MaxChatLen THEN <<>>
       ELSE trimmed

\* safeChatText(input): the trimmed text, or <<>> for null
safeChatText(input) ==
  IF ~input.isString THEN <<>>
  ELSE LET trimmed == Trim(input.chars) IN
       IF Len(trimmed) < 1 \/ Len(trimmed) > MaxChatLen THEN <<>>
       ELSE IF \E i \in 1..Len(trimmed) : trimmed[i] \in ControlClass THEN <<>>
       ELSE trimmed

\* String.prototype.startsWith, indexOf and slice, with the code's 0-based indices
StartsWith(s, p) == Len(s) >= Len(p) /\ SubSeq(s, 1, Len(p)) = p
IndexOf(s, c, from) ==
  LET hits == {i \in from..(Len(s) - 1) : s[i + 1] = c} IN
  IF hits = {} THEN -1 ELSE CHOOSE i \in hits : \A j \in hits : i <= j
Slice(s, a, b) == SubSeq(s, a + 1, b)
SliceFrom(s, a) == SubSeq(s, a + 1, Len(s))

NoPm == [found |-> FALSE, toName |-> <<>>, body |-> <<>>]

\* parsePrivatePrefix(text)
parsePrivatePrefix(text) ==
  IF ~StartsWith(text, <<"@">>) THEN NoPm
  ELSE IF StartsWith(text, <<"@", "\"">>)
  THEN LET closing == IndexOf(text, "\"", 2) IN
       IF closing = -1 THEN NoPm
       ELSE LET toName == Slice(text, 2, closing)
                rest == SliceFrom(text, closing + 1)
                body == Trim(rest)
            IN IF ~StartsWith(rest, <<" ">>) THEN NoPm
               ELSE IF toName = <<>> \/ body = <<>> THEN NoPm
               ELSE [found |-> TRUE, toName |-> toName, body |-> body]
  ELSE LET firstSpace == IndexOf(text, " ", 0) IN
       IF firstSpace = -1 THEN NoPm
       ELSE LET toName == Slice(text, 1, firstSpace)
                body == Trim(SliceFrom(text, firstSpace + 1))
            IN IF toName = <<>> \/ body = <<>> THEN NoPm
               ELSE [found |-> TRUE, toName |-> toName, body |-> body]

ReplyPrefix == <<"@", "r", "e", "p", "l", "y", " ", "[">>

\* broadcastChat that does not skip the sessions without a name
broadcastChatToAll(u, text) ==
  LET to == InOrder(Live)
  IN Eff(users, nameToId, rooms, pushSubscriptions,
         Concat([i \in 1..Len(to) |->
            send(users, to[i], [type |-> "chat", from |-> u, fromName |-> users[u].name,
                                text |-> text, private |-> FALSE])]),
         Concat([i \in 1..Len(to) |->
            IF to[i] # u THEN sendPushToUser(pushSubscriptions, to[i], "lrcom-chat")
            ELSE <<>>]))

\* broadcastChat(fromUser, text): the frames, then the push calls
broadcastChat(u, text) ==
  LET ord == InOrder(Live)
      named(i) == users[i].name # NoName
      to == SelectSeq(ord, named)
  IN Eff(users, nameToId, rooms, pushSubscriptions,
         Concat([i \in 1..Len(to) |->
            send(users, to[i], [type |-> "chat", from |-> u, fromName |-> users[u].name,
                                text |-> text, private |-> FALSE])]),
         Concat([i \in 1..Len(to) |->
            IF to[i] # u THEN sendPushToUser(pushSubscriptions, to[i], "lrcom-chat")
            ELSE <<>>]))

\* sendPrivateChat that writes the frame to every named session
sendPrivateChatToAll(u, toId, text) ==
  LET frame == [type |-> "chat", from |-> u, fromName |-> users[u].name,
                toId |-> toId, toName |-> users[toId].name,
                text |-> text, private |-> TRUE]
      ord == InOrder(Live)
  IN Eff(users, nameToId, rooms, pushSubscriptions,
         Concat([i \in 1..Len(ord) |->
            IF users[ord[i]].name = NoName THEN <<>> ELSE send(users, ord[i], frame)]),
         sendPushToUser(pushSubscriptions, toId, "lrcom-pm"))

\* sendPrivateChat(fromUser, toUser, text); toId is the frame's field 'to'
sendPrivateChat(u, toId, text) ==
  LET frame == [type |-> "chat", from |-> u, fromName |-> users[u].name,
                toId |-> toId, toName |-> users[toId].name,
                text |-> text, private |-> TRUE]
  IN Eff(users, nameToId, rooms, pushSubscriptions,
         send(users, u, frame) \o send(users, toId, frame),
         sendPushToUser(pushSubscriptions, toId, "lrcom-pm"))

Err(code) == [type |-> "error", code |-> code]

\* chatSend without the test for a message to oneself
OnChatSendNoSelfTest(u, msg) ==
  LET raw == safeChatText(msg.text) IN
  IF raw = <<>> THEN Reply(u, Err("BAD_CHAT"))
  ELSE
    LET pm == IF StartsWith(raw, ReplyPrefix) THEN NoPm ELSE parsePrivatePrefix(raw) IN
    IF pm.found
    THEN LET toId == IF pm.toName \in DOMAIN nameToId THEN nameToId[pm.toName] ELSE NoId IN
         IF toId = NoId \/ toId \notin Live THEN Reply(u, Err("PM_NOT_FOUND"))
         ELSE IF users[toId].name = NoName THEN Reply(u, Err("PM_NOT_FOUND"))
         ELSE sendPrivateChat(u, toId, pm.body)
    ELSE broadcastChat(u, raw)

\* chatSend without the test for the reply prefix
OnChatSendNoReplyTest(u, msg) ==
  LET raw == safeChatText(msg.text) IN
  IF raw = <<>> THEN Reply(u, Err("BAD_CHAT"))
  ELSE
    LET pm == parsePrivatePrefix(raw) IN
    IF pm.found
    THEN LET toId == IF pm.toName \in DOMAIN nameToId THEN nameToId[pm.toName] ELSE NoId IN
         IF toId = NoId \/ toId \notin Live THEN Reply(u, Err("PM_NOT_FOUND"))
         ELSE IF users[toId].name = NoName THEN Reply(u, Err("PM_NOT_FOUND"))
         ELSE IF toId = u THEN Reply(u, Err("PM_SELF"))
         ELSE sendPrivateChat(u, toId, pm.body)
    ELSE broadcastChat(u, raw)

\* chatSend
OnChatSend(u, msg) ==
  LET raw == safeChatText(msg.text) IN
  IF raw = <<>> THEN Reply(u, Err("BAD_CHAT"))
  ELSE
    LET pm == IF StartsWith(raw, ReplyPrefix) THEN NoPm ELSE parsePrivatePrefix(raw) IN
    IF pm.found
    THEN LET toId == IF pm.toName \in DOMAIN nameToId THEN nameToId[pm.toName] ELSE NoId IN
         IF toId = NoId \/ toId \notin Live THEN Reply(u, Err("PM_NOT_FOUND"))
         ELSE IF users[toId].name = NoName THEN Reply(u, Err("PM_NOT_FOUND"))
         ELSE IF toId = u THEN Reply(u, Err("PM_SELF"))
         ELSE sendPrivateChat(u, toId, pm.body)
    ELSE broadcastChat(u, raw)

\* ------------------------------------------------------------------ frames
\* what ws hands to the 'message' handler: text that is not JSON, JSON without
\* a string type, or a message
Garbage == [json |-> FALSE, typed |-> FALSE, msg |-> [type |-> ""]]
Untyped == [json |-> TRUE, typed |-> FALSE, msg |-> [type |-> ""]]
Msg(m) == [json |-> TRUE, typed |-> TRUE, msg |-> m]

\* the chain of type tests without the test of user.name
DispatchNoNameTest(u, data) ==
  IF ~data.json THEN Reply(u, Err("BAD_JSON"))
  ELSE IF ~data.typed THEN Reply(u, Err("BAD_MESSAGE"))
  ELSE
    LET msg == data.msg IN
    IF msg.type = "pushSubscribe" THEN OnPushSubscribe(u, msg)
    ELSE IF msg.type = "pushUnsubscribe" THEN OnPushUnsubscribe(u, msg)
    ELSE IF msg.type = "setName" THEN OnSetName(u, msg)
    ELSE IF msg.type = "callStart" THEN OnCallStart(u, msg)
    ELSE IF msg.type = "callReject" THEN OnCallReject(u, msg)
    ELSE IF msg.type = "callAccept" THEN OnCallAccept(u, msg)
    ELSE IF msg.type = "signal" THEN OnSignal(u, msg)
    ELSE IF msg.type = "callHangup" THEN OnCallHangup(u, msg)
    ELSE IF msg.type = "chatSend" THEN OnChatSend(u, msg)
    ELSE Reply(u, Err("UNKNOWN_TYPE"))

\* the handler after the rate-limit check: parse, then the chain of type tests
Dispatch(u, data) ==
  IF ~data.json THEN Reply(u, Err("BAD_JSON"))
  ELSE IF ~data.typed THEN Reply(u, Err("BAD_MESSAGE"))
  ELSE
    LET msg == data.msg IN
    IF msg.type = "pushSubscribe" THEN OnPushSubscribe(u, msg)
    ELSE IF msg.type = "pushUnsubscribe" THEN OnPushUnsubscribe(u, msg)
    ELSE IF msg.type = "setName" THEN OnSetName(u, msg)
    ELSE IF users[u].name = NoName THEN Reply(u, Err("NO_NAME"))
    ELSE IF msg.type = "callStart" THEN OnCallStart(u, msg)
    ELSE IF msg.type = "callReject" THEN OnCallReject(u, msg)
    ELSE IF msg.type = "callAccept" THEN OnCallAccept(u, msg)
    ELSE IF msg.type = "signal" THEN OnSignal(u, msg)
    ELSE IF msg.type = "callHangup" THEN OnCallHangup(u, msg)
    ELSE IF msg.type = "chatSend" THEN OnChatSend(u, msg)
    ELSE Reply(u, Err("UNKNOWN_TYPE"))

\* the name the handler invocation is recorded under
OpOf(data, pass) ==
  IF ~pass THEN "rateLimited"
  ELSE IF ~data.json THEN "badJson"
  ELSE IF ~data.typed THEN "badMessage"
  ELSE data.msg.type

Commit(e) ==
  /\ users' = e.users
  /\ nameToId' = e.nameToId
  /\ rooms' = e.rooms
  /\ pushSubscriptions' = e.pushSubscriptions
  /\ sent' = e.sent
  /\ pushed' = e.pushed

\* the four tables, as a handler finds them when it begins
Snapshot ==
  [users |-> users, nameToId |-> nameToId, rooms |-> rooms,
   pushSubscriptions |-> pushSubscriptions]
NoPrev == [users |-> <<>>, nameToId |-> <<>>, rooms |-> <<>>, pushSubscriptions |-> <<>>]

\* ws.on('message'): frames arrive only on a channel that is open.  pass is
\* the verdict of rateLimit(user, now)
OnMessage(u, data, pass) ==
  /\ last = Idle
  /\ u \in Live
  /\ users[u].ready
  /\ LET e == IF pass THEN Dispatch(u, data) ELSE Reply(u, Err("RATE_LIMIT")) IN
       /\ DOMAIN e.rooms \subseteq RoomIds
       /\ Commit(e)
  /\ last' = [op |-> OpOf(data, pass), id |-> u, data |-> data]
  /\ prev' = Snapshot
  /\ UNCHANGED <<pushEnabled, nextId>>

\* ------------------------------------------------------------------ rate limiter
RateWindowMs == 2000
RateMaxFrames == 20

\* user._rl before the first frame (null)
NoRl == [init |-> FALSE, windowStart |-> 0, count |-> 0]

\* rateLimit with half the allowance, to tell the two apart
rateLimitHalf(rlu, nowMs) ==
  LET win0 == IF ~rlu.init THEN [init |-> TRUE, windowStart |-> nowMs, count |-> 0] ELSE rlu
      win1 == IF nowMs - win0.windowStart > RateWindowMs
              THEN [win0 EXCEPT !.windowStart = nowMs, !.count = 0]
              ELSE win0
      win2 == [win1 EXCEPT !.count = @ + 1]
  IN [rl |-> win2, ok |-> win2.count <= RateMaxFrames \div 2]

\* rateLimit that restarts the window at RateWindowMs sharp, to tell the two apart
rateLimitResetsEarly(rlu, nowMs) ==
  LET win0 == IF ~rlu.init THEN [init |-> TRUE, windowStart |-> nowMs, count |-> 0] ELSE rlu
      win1 == IF nowMs - win0.windowStart >= RateWindowMs
              THEN [win0 EXCEPT !.windowStart = nowMs, !.count = 0]
              ELSE win0
      win2 == [win1 EXCEPT !.count = @ + 1]
  IN [rl |-> win2, ok |-> win2.count <= RateMaxFrames]

\* a limiter that does not open a new window for a session over its allowance
rateLimitKeepsBan(rlu, nowMs) ==
  LET win0 == IF ~rlu.init THEN [init |-> TRUE, windowStart |-> nowMs, count |-> 0] ELSE rlu
      win1 == IF nowMs - win0.windowStart > RateWindowMs /\ win0.count <= RateMaxFrames
              THEN [win0 EXCEPT !.windowStart = nowMs, !.count = 0]
              ELSE win0
      win2 == [win1 EXCEPT !.count = @ + 1]
  IN [rl |-> win2, ok |-> win2.count <= RateMaxFrames]

\* rateLimit(user, nowMs): user._rl after the call, and the verdict
rateLimit(rlu, nowMs) ==
  LET win0 == IF ~rlu.init THEN [init |-> TRUE, windowStart |-> nowMs, count |-> 0] ELSE rlu
      win1 == IF nowMs - win0.windowStart > RateWindowMs
              THEN [win0 EXCEPT !.windowStart = nowMs, !.count = 0]
              ELSE win0
      win2 == [win1 EXCEPT !.count = @ + 1]
  IN [rl |-> win2, ok |-> win2.count <= RateMaxFrames]

\* the clock stands at MaxTime at most, and a window's counter at MaxCount
MaxTime == 3002
MaxCount == 22
TickMs == {1000, 1001}

NoProbe == [on |-> FALSE, id |-> NoId, start |-> 0, count |-> 0]

\* ws.on('message') with the clock: const now = Date.now(); rateLimit(user, now)
OnMessageAt(u, data) ==
  /\ u \in Live
  /\ LET v == rateLimit(rl[u], now) IN
       /\ v.rl.count <= MaxCount
       /\ OnMessage(u, data, v.ok)
       /\ rl' = [rl EXCEPT ![u] = v.rl]
       /\ probe' = IF v.ok /\ probe.on /\ probe.id = u /\ now < probe.start + RateWindowMs
                   THEN [probe EXCEPT !.count = @ + 1]
                   ELSE probe
  /\ now' = now

\* Date.now() moves on
Tick(d) ==
  /\ last = Idle
  /\ now + d <= MaxTime
  /\ now' = now + d
  /\ UNCHANGED <<users, nameToId, rooms, pushSubscriptions, pushEnabled, nextId,
                 last, sent, pushed, prev, rl, probe>>

\* an observer starts to count the frames of session u that pass the limiter
\* during the RateWindowMs milliseconds that begin now
StartProbe(u) ==
  /\ last = Idle
  /\ u \in Live
  /\ ~probe.on
  /\ probe' = [on |-> TRUE, id |-> u, start |-> now, count |-> 0]
  /\ UNCHANGED <<users, nameToId, rooms, pushSubscriptions, pushEnabled, nextId,
                 last, sent, pushed, prev, rl, now>>

\* ------------------------------------------------------------------ inputs
\* the frames the model's clients send
Letters == <<"a", "b", "c", "d", "e">>
NameOf(i) == <<Letters[i]>>
LongName == [i \in 1..(MaxNameLen + 1) |-> "a"]
\* names with contention: every client may ask for every name
NameInputs ==
  {Str(<<"a">>), Str(<<" ", "a", " ">>), Str(<<"b">>), Str(<<"c">>),
   Str(<<"a", "!">>), Str(<<" ">>), Str(LongName), NotString}
\* names without contention: client i asks for the i-th letter
OwnNameInputs(i) ==
  {Str(NameOf(i)), Str(<<" ">> \o NameOf(i) \o <<" ">>), Str(<<"a", "!">>), NotString}
ChatInputs ==
  {Str(<<"h">>), Str(<<"@", "a", " ", "h">>), Str(<<"@", "b", " ", "h">>),
   Str(<<"@", "\"", "b", "\"", " ", " ", "h", " ">>), NotString}
ClientIds == {NoId} \cup Ids
\* room ids a client can name: none, or one the hub has made or may make
ClientRoomIds == {NoRoom} \cup RoomIds

SetName(n) == Msg([type |-> "setName", name |-> n])
PushFrames ==
  {Msg([type |-> "pushSubscribe", subscription |-> s]) : s \in {"s1", NoSub}}
    \cup {Msg([type |-> "pushUnsubscribe"])}
CallStartFrames == {Msg([type |-> "callStart", to |-> i]) : i \in ClientIds}
CallRejectFrames ==
  {Msg([type |-> "callReject", from |-> i, roomId |-> r]) : i \in ClientIds, r \in ClientRoomIds}
CallAcceptFrames ==
  {Msg([type |-> "callAccept", from |-> i, roomId |-> r]) : i \in ClientIds, r \in ClientRoomIds}
SignalFrames == {Msg([type |-> "signal", to |-> i, payload |-> "sdp"]) : i \in ClientIds}
HangupFrames == {Msg([type |-> "callHangup"])}
ChatFrames == {Msg([type |-> "chatSend", text |-> t]) : t \in ChatInputs}
OtherFrames == {Garbage, Untyped, Msg([type |-> "bogus"])}
\* frames that meet a negative rate-limit verdict: the handler returns before
\* it looks at them
LimitedFrames == {Garbage, SetName(Str(<<"c">>)), Msg([type |-> "callHangup"])}
RateFrames == {Garbage, SetName(Str(<<"a">>))}

\* ------------------------------------------------------------------ channel events
\* ws.readyState leaves OPEN before 'close' is emitted
Closing(u) ==
  /\ last = Idle
  /\ u \in Live
  /\ users[u].ready
  /\ Cardinality({i \in Live : ~users[i].ready}) < MaxClosing
  /\ users' = [users EXCEPT ![u].ready = FALSE]
  /\ sent' = <<>>
  /\ pushed' = <<>>
  /\ last' = [op |-> "closing", id |-> u]
  /\ prev' = Snapshot
  /\ UNCHANGED <<nameToId, rooms, pushSubscriptions, pushEnabled, nextId>>

\* ws.on('close') and ws.on('error') of an accepted channel, in any order and
\* any number: both call closeUser(userId)
ChannelEvent(u, ev) ==
  /\ last = Idle
  /\ u <= nextId
  /\ Commit(closeUser(u))
  /\ last' = [op |-> ev, id |-> u]
  /\ prev' = Snapshot
  /\ UNCHANGED <<pushEnabled, nextId>>

WsClose(u) == ChannelEvent(u, "close")
WsError(u) == ChannelEvent(u, "error")

\* a connection handler that announces the new session before it greets it
ConnectionPresenceFirst ==
  /\ last = Idle
  /\ nextId < MaxConn
  /\ LET userId == nextId + 1
         U == MapSet(users, userId, [name |-> NoName, roomId |-> NoRoom, ready |-> TRUE])
     IN /\ users' = U
        /\ nextId' = userId
        /\ sent' = broadcastPresence(U) \o send(U, userId, [type |-> "hello", id |-> userId])
        /\ pushed' = <<>>
        /\ last' = [op |-> "connection", id |-> userId]
  /\ prev' = Snapshot
  /\ UNCHANGED <<nameToId, rooms, pushSubscriptions, pushEnabled>>

\* wss.on('connection'): a fresh id, the session record, then hello
Connection ==
  /\ last = Idle
  /\ nextId < MaxConn
  /\ LET userId == nextId + 1
         U == MapSet(users, userId, [name |-> NoName, roomId |-> NoRoom, ready |-> TRUE])
     IN /\ users' = U
        /\ nextId' = userId
        /\ sent' = send(U, userId, [type |-> "hello", id |-> userId])
        /\ pushed' = <<>>
        /\ last' = [op |-> "connection", id |-> userId]
  /\ prev' = Snapshot
  /\ UNCHANGED <<nameToId, rooms, pushSubscriptions, pushEnabled>>

\* the frames of the last handler invocation have left; the next one may run
Flush ==
  /\ last # Idle
  /\ last' = Idle
  /\ sent' = <<>>
  /\ pushed' = <<>>
  /\ prev' = NoPrev
  /\ UNCHANGED <<users, nameToId, rooms, pushSubscriptions, pushEnabled, nextId>>

\* a client without an incomingCall to answer
NoInvite == [from |-> NoId, roomId |-> NoRoom]

\* ------------------------------------------------------------------ specifications
Start ==
  /\ users = <<>>
  /\ nameToId = <<>>
  /\ rooms = <<>>
  /\ pushSubscriptions = <<>>
  /\ nextId = 0
  /\ last = Idle
  /\ sent = <<>>
  /\ pushed = <<>>
  /\ prev = NoPrev
  /\ now = 0
  /\ rl = [i \in Ids |-> NoRl]
  /\ probe = NoProbe
  /\ invited = [i \in Ids |-> NoInvite]
  /\ told = {}
  /\ inflight = {}

\* the hub without VAPID keys (PUSH_ENABLED false, the default)
Init == Start /\ pushEnabled = FALSE

NoClock == UNCHANGED <<now, rl, probe>>
\* the specifications that do not follow the clients' invitations, the
\* roomPeerJoined frames or the push sink leave their records alone
NoTrace == UNCHANGED <<invited, told, inflight>>

\* Spec: sessions, rooms, calls, signaling, chat and disconnects.  Every
\* client asks for a name of its own (SpecNames has the contention); the
\* verdict of the rate limiter is any (SpecRate has the clock).
Next ==
  \/ Connection /\ NoClock /\ NoTrace
  \/ \E u \in Ids : \E n \in OwnNameInputs(u) : OnMessage(u, SetName(n), TRUE) /\ NoClock /\ NoTrace
  \/ \E u \in Ids, d \in CallStartFrames : OnMessage(u, d, TRUE) /\ NoClock /\ NoTrace
  \/ \E u \in Ids, d \in CallRejectFrames : OnMessage(u, d, TRUE) /\ NoClock /\ NoTrace
  \/ \E u \in Ids, d \in CallAcceptFrames : OnMessage(u, d, TRUE) /\ NoClock /\ NoTrace
  \/ \E u \in Ids, d \in SignalFrames : OnMessage(u, d, TRUE) /\ NoClock /\ NoTrace
  \/ \E u \in Ids, d \in HangupFrames : OnMessage(u, d, TRUE) /\ NoClock /\ NoTrace
  \/ \E u \in Ids, d \in ChatFrames : OnMessage(u, d, TRUE) /\ NoClock /\ NoTrace
  \/ \E u \in Ids, d \in OtherFrames : OnMessage(u, d, TRUE) /\ NoClock /\ NoTrace
  \/ \E u \in Ids, d \in LimitedFrames : OnMessage(u, d, FALSE) /\ NoClock /\ NoTrace
  \/ \E u \in Ids : Closing(u) /\ NoClock /\ NoTrace
  \/ \E u \in Ids : WsClose(u) /\ NoClock /\ NoTrace
  \/ \E u \in Ids : WsError(u) /\ NoClock /\ NoTrace
  \/ Flush /\ NoClock /\ NoTrace

Spec == Init /\ [][Next]_vars

\* SpecNames: connects, setName frames with every client asking for every
\* name, and disconnects
NextNames ==
  \/ Connection /\ NoClock /\ NoTrace
  \/ \E u \in Ids, n \in NameInputs : OnMessage(u, SetName(n), TRUE) /\ NoClock /\ NoTrace
  \/ \E u \in Ids : Closing(u) /\ NoClock /\ NoTrace
  \/ \E u \in Ids : WsClose(u) /\ NoClock /\ NoTrace
  \/ \E u \in Ids : WsError(u) /\ NoClock /\ NoTrace
  \/ Flush /\ NoClock /\ NoTrace

SpecNames == Init /\ [][NextNames]_vars

\* SpecRate: one session, the clock and the limiter's counter
NextRate ==
  \/ nextId = 0 /\ Connection /\ NoClock /\ NoTrace
  \/ \E u \in Ids, d \in RateFrames : OnMessageAt(u, d) /\ NoTrace
  \/ \E d \in TickMs : Tick(d) /\ NoTrace
  \/ \E u \in Ids : StartProbe(u) /\ NoTrace
  \/ Flush /\ NoClock /\ NoTrace

SpecRate == Init /\ [][NextRate]_vars

\* ------------------------------------------------------------------ properties
\* A state with last # Idle is the state right after one handler invocation:
\* prev holds the tables it found, sent and pushed what it wrote.

\* how many of the frames just written satisfy a test
FramesTo(i) == {k \in 1..Len(sent) : sent[k].to = i}
SystemChats(i) ==
  {k \in FramesTo(i) : sent[k].type = "chat" /\ sent[k].fromName = "System"}
PeerLefts(i) == {k \in FramesTo(i) : sent[k].type = "roomPeerLeft"}
AloneEnds(i) ==
  {k \in FramesTo(i) : sent[k].type = "callEnded" /\ sent[k].reason = "alone"}

\* C1: the name index and the named live sessions agree, both ways: every
\* named live session s has nameToId[s.name] = s.id, and every entry n -> i
\* of nameToId refers to a live session i whose name is n.
NameIndexAgrees ==
  /\ \A s \in Live :
       users[s].name # NoName =>
         users[s].name \in DOMAIN nameToId /\ nameToId[users[s].name] = s
  /\ \A n \in DOMAIN nameToId :
       nameToId[n] \in Live /\ users[nameToId[n]].name = n

\* a named session has just taken another name while a second session is named
RenamedBesideAnother ==
  /\ last.op = "setName"
  /\ prev.users[last.id].name # NoName
  /\ users[last.id].name # prev.users[last.id].name
  /\ \E t \in Live : t # last.id /\ users[t].name # NoName

\* the validated name of the setName frame just handled is held by another
\* live session
NameHeldByOther ==
  /\ last.op = "setName"
  /\ LET name == safeName(last.data.msg.name) IN
       /\ name # NoName
       /\ \E t \in DOMAIN prev.users : t # last.id /\ prev.users[t].name = name

\* C2: no two live sessions hold the same name, and a setName whose validated
\* name is held by another live session is answered with nameResult ok:false
\* reason 'taken' and nothing else: no table changes, nothing is broadcast.
TakenNameRefused ==
  /\ \A s, t \in Live :
       s # t /\ users[s].name # NoName => users[s].name # users[t].name
  /\ NameHeldByOther =>
       /\ sent = << [to |-> last.id, type |-> "nameResult", ok |-> FALSE,
                     reason |-> "taken"] >>
       /\ pushed = <<>>
       /\ Snapshot = prev

\* a setName for a held name has been refused while the holder is live
TakenNameAsked ==
  /\ NameHeldByOther
  /\ \E t \in Live : t # last.id /\ users[t].name = safeName(last.data.msg.name)

\* the signal branch has just run for a frame of a named sender
SignalHandled == last.op = "signal" /\ prev.users[last.id].name # NoName
\* the target is live and shares the sender's non-empty room id
SignalAllowed ==
  LET a == last.id
      b == last.data.msg.to
  IN /\ b \in DOMAIN prev.users
     /\ prev.users[a].roomId # NoRoom
     /\ prev.users[a].roomId = prev.users[b].roomId

\* C3: a signal frame of session A is forwarded to B only if B is live and
\* A.roomId is non-empty and equal to B.roomId when the hub handles it; the
\* frame goes to B alone, and in every other case no frame is written to
\* any session.
SignalOnlyWithinRoom ==
  SignalHandled =>
    /\ \A k \in 1..Len(sent) :
         /\ sent[k].type = "signal"
         /\ sent[k].to = last.data.msg.to
         /\ sent[k].from = last.id
         /\ SignalAllowed
    /\ ~SignalAllowed => sent = <<>>
    /\ Len(sent) <= 1

\* a signal has been forwarded to another member of the sender's room
SignalForwarded ==
  /\ SignalHandled
  /\ Len(sent) = 1
  /\ sent[1].type = "signal"
  /\ sent[1].to # last.id

\* C4: for every room r and every id in r.members, a live session with that
\* id exists and its roomId is r.id, whatever 'from' and 'roomId' the
\* callStart, callAccept, callReject and callHangup frames carry.
RoomMembersLinked ==
  \A r \in DOMAIN rooms :
    \A m \in rooms[r] : m \in Live /\ users[m].roomId = r

\* C5: every live session with a non-empty roomId names a room that is in
\* the room table and has the session's id among its members.
RoomIdNamesRoom ==
  \A s \in Live :
    users[s].roomId # NoRoom =>
      users[s].roomId \in DOMAIN rooms /\ s \in rooms[users[s].roomId]

\* the room that session u was linked to when the last handler began
RoomLeftBy(u) == IF u \in DOMAIN prev.users THEN prev.users[u].roomId ELSE NoRoom
\* the last handler took its sender out of a room of the table
LeftRoom ==
  /\ last.op \in {"callHangup", "callReject", "close", "error"}
  /\ RoomLeftBy(last.id) \in DOMAIN prev.rooms
  /\ last.id \in prev.rooms[RoomLeftBy(last.id)]
  /\ RoomLeftBy(last.id) \in DOMAIN rooms => last.id \notin rooms[RoomLeftBy(last.id)]
\* who stayed behind in that room
Remaining == prev.rooms[RoomLeftBy(last.id)] \ {last.id}

\* a hangup has dissolved a room and left a live session behind
HangupDissolvedRoom ==
  /\ last.op = "callHangup"
  /\ LeftRoom
  /\ RoomLeftBy(last.id) \notin DOMAIN rooms
  /\ \E m \in Remaining : m \in Live /\ prev.users[m].roomId = RoomLeftBy(last.id)

\* C6: every room of the room table has at least 2 members: callStart makes
\* a room with the caller and the callee, two distinct sessions, and a leave
\* that brings a room down to 1 or 0 members deletes it in the same step.
RoomsHaveTwoMembers ==
  /\ \A r \in DOMAIN rooms : Cardinality(rooms[r]) >= 2
  /\ last.op = "callStart" =>
       \A r \in (DOMAIN rooms) \ (DOMAIN prev.rooms) :
         rooms[r] = {last.id, last.data.msg.to} /\ last.id # last.data.msg.to
  /\ LeftRoom /\ Cardinality(Remaining) <= 1 => RoomLeftBy(last.id) \notin DOMAIN rooms

\* a disconnect has brought a room of two down to one member
CloseLeftOneMember ==
  /\ last.op \in {"close", "error"}
  /\ LeftRoom
  /\ Cardinality(Remaining) = 1
  /\ RoomLeftBy(last.id) \notin DOMAIN rooms

\* C7: when a session leaves a room by callHangup, callReject or disconnect
\* and exactly one member remains, then in that same step the room is
\* removed, the remaining member's roomId is cleared and the remaining member
\* is sent exactly one callEnded with reason 'alone' (written when its
\* channel is open).
LastMemberReleased ==
  LeftRoom /\ Cardinality(Remaining) = 1 =>
    /\ RoomLeftBy(last.id) \notin DOMAIN rooms
    /\ \A m \in Remaining :
         /\ m \in Live
         /\ users[m].roomId = NoRoom
         /\ users[m].ready => Cardinality(AloneEnds(m)) = 1

\* C8: after the disconnect handler has run for a session, its id is in none
\* of the tables: no key of users, no value of nameToId, no member of a
\* room, no key of pushSubscriptions.
ClosedIdIsGone ==
  last.op \in {"close", "error"} =>
    /\ last.id \notin DOMAIN users
    /\ \A n \in DOMAIN nameToId : nameToId[n] # last.id
    /\ \A r \in DOMAIN rooms : last.id \notin rooms[r]
    /\ last.id \notin DOMAIN pushSubscriptions

\* the disconnect handler has just run for an id that closeUser had removed
SecondChannelEvent ==
  /\ last.op \in {"close", "error"}
  /\ last.id \notin DOMAIN prev.users

\* C9: the disconnect effects happen once.  The first of 'close' and 'error'
\* writes one roomPeerLeft to every remaining member of the room and one
\* System "<name> left." chat to every named session (open channels), and the
\* session is gone; the second changes no table and writes no frame.
DisconnectOnce ==
  /\ SecondChannelEvent => Snapshot = prev /\ sent = <<>> /\ pushed = <<>>
  /\ last.op \in {"close", "error"} /\ last.id \in DOMAIN prev.users =>
       /\ last.id \notin Live
       /\ \A m \in Live :
            /\ Cardinality(PeerLefts(m)) =
                 IF users[m].ready /\ LeftRoom /\ m \in Remaining THEN 1 ELSE 0
            /\ Cardinality(SystemChats(m)) =
                 IF users[m].ready /\ users[m].name # NoName
                    /\ prev.users[last.id].name # NoName
                 THEN 1 ELSE 0
            /\ \A k \in SystemChats(m) : sent[k].text = prev.users[last.id].name \o Left

\* the second channel event of a session arrives while others are connected
SecondEventAmongOthers ==
  /\ SecondChannelEvent
  /\ \E m \in Live : users[m].ready /\ users[m].name # NoName

\* C10: in every interval of RateWindowMs milliseconds, wherever it begins,
\* at most RateMaxFrames frames of a session pass the rate-limit check, and a
\* frame that does not pass is answered with the error code RATE_LIMIT.
AtMostMaxPerInterval ==
  /\ probe.count <= RateMaxFrames
  /\ last.op = "rateLimited" => sent = << [to |-> last.id] @@ Err("RATE_LIMIT") >>

\* a frame of session u arrives while its window is running and has counted
\* RateMaxFrames frames or more
OverAllowance(u) ==
  /\ rl[u].init
  /\ now - rl[u].windowStart <= RateWindowMs
  /\ rl[u].count >= RateMaxFrames
\* one frame of session u through the limiter, as a step
LimiterStep(u) ==
  /\ OverAllowance(u) =>
       /\ last'.op = "rateLimited"
       /\ sent' = << [to |-> u] @@ Err("RATE_LIMIT") >>
       /\ pushed' = <<>>
       /\ UNCHANGED <<users, nameToId, rooms, pushSubscriptions>>
       /\ rl' = [rl EXCEPT ![u].count = @ + 1]
  /\ rl[u].init /\ (rl'[u].count <= rl[u].count \/ rl'[u].windowStart # rl[u].windowStart) =>
       /\ now - rl[u].windowStart > RateWindowMs
       /\ rl'[u] = [init |-> TRUE, windowStart |-> now, count |-> 1]

\* C11: a frame that makes the session's counter exceed RateMaxFrames inside
\* the running window is not parsed or dispatched, whatever it holds: the one
\* reply is error RATE_LIMIT to the sender, no table changes and only that
\* session's counter moves; the counter restarts only with a frame that
\* arrives strictly more than RateWindowMs after windowStart.
RateLimitedFrameDropped ==
  [][\A u \in Ids : rl'[u] # rl[u] => LimiterStep(u)]_vars

\* a setName that would have named the session has been refused by the limiter
SetNameRateLimited ==
  /\ last.op = "rateLimited"
  /\ last.data = SetName(Str(<<"a">>))
  /\ users[last.id].name = NoName
  /\ rl[last.id].count > RateMaxFrames

\* the frames just written to session i, in order
SentTo(i) == LET mine(f) == f.to = i IN SelectSeq(sent, mine)
Presences(i) == {k \in FramesTo(i) : sent[k].type = "presence"}
\* session i as the presence frame at position k of sent lists it
ListedAs(k, i) == {e \in {sent[k].users[j] : j \in 1..Len(sent[k].users)} : e.id = i}

\* the callStart branch has just run for a frame of a named sender
CallStartHandled == last.op = "callStart" /\ prev.users[last.id].name # NoName
\* why the targeted session cannot be called, in the order of the tests
RejectReason ==
  LET to == last.data.msg.to
      U == prev.users
  IN IF to \notin DOMAIN U THEN "not_found"
     ELSE IF to = last.id THEN "self"
     ELSE IF U[to].name = NoName THEN "not_ready"
     ELSE IF U[to].roomId # NoRoom THEN "busy"
     ELSE "none"

\* C12: a callStart of a named session is rejected with callStartResult
\* ok:false and the first reason that applies of 'not_found' (target not
\* live), 'self' (target is the sender), 'not_ready' (target unnamed), 'busy'
\* (target has a roomId); a rejection changes no room and no roomId and
\* writes nothing else: no incomingCall, no presence.
CallStartRejected ==
  CallStartHandled /\ RejectReason # "none" =>
    /\ sent = << [to |-> last.id, type |-> "callStartResult", ok |-> FALSE,
                  reason |-> RejectReason] >>
    /\ pushed = <<>>
    /\ Snapshot = prev

\* a session in a room has called itself: 'self' goes before 'busy'
CalledSelfWhileBusy ==
  /\ CallStartHandled
  /\ last.data.msg.to = last.id
  /\ prev.users[last.id].roomId # NoRoom
  /\ Len(sent) = 1
  /\ sent[1].reason = "self"

\* C13: a callStart that is not rejected uses the caller's roomId when it has
\* one and a fresh room id otherwise; afterwards caller and callee are
\* members of that room and have it as roomId, the members the room had stay,
\* the callee is sent incomingCall with the caller's id, name and the room
\* id, the caller callStartResult ok:true, and after these the presence
\* frames, which list both as busy.
CallStartJoinsRoom ==
  CallStartHandled /\ RejectReason = "none" =>
    LET a == last.id
        b == last.data.msg.to
        rid == users[a].roomId
        was == IF rid \in DOMAIN prev.rooms THEN prev.rooms[rid] ELSE {}
        incoming == [to |-> b, type |-> "incomingCall", from |-> a,
                     fromName |-> prev.users[a].name, roomId |-> rid]
        result == [to |-> a, type |-> "callStartResult", ok |-> TRUE]
        heads == (IF users[b].ready THEN <<incoming>> ELSE <<>>) \o <<result>>
    IN /\ rid # NoRoom
       /\ IF prev.users[a].roomId # NoRoom
          THEN rid = prev.users[a].roomId
          ELSE rid \notin DOMAIN prev.rooms
               /\ \A i \in DOMAIN prev.users : prev.users[i].roomId # rid
       /\ DOMAIN rooms = (DOMAIN prev.rooms) \cup {rid}
       /\ rooms[rid] = was \cup {a, b}
       /\ \A r \in DOMAIN prev.rooms : r # rid => rooms[r] = prev.rooms[r]
       /\ DOMAIN users = DOMAIN prev.users
       /\ \A i \in Live :
            users[i] = IF i \in {a, b} THEN [prev.users[i] EXCEPT !.roomId = rid]
                       ELSE prev.users[i]
       /\ nameToId = prev.nameToId
       /\ Len(sent) >= Len(heads)
       /\ SubSeq(sent, 1, Len(heads)) = heads
       /\ \A k \in (Len(heads) + 1)..Len(sent) :
            /\ sent[k].type = "presence"
            /\ \A i \in {a, b} : ListedAs(k, i) = {[id |-> i, name |-> users[i].name, busy |-> TRUE]}
       /\ \A i \in {a, b} : users[i].ready => Cardinality(Presences(i)) = 1

\* a caller in a room of two has brought a third session into it
ThirdSessionInvited ==
  /\ CallStartHandled
  /\ RejectReason = "none"
  /\ prev.users[last.id].roomId # NoRoom
  /\ Cardinality(rooms[users[last.id].roomId]) = 3
  /\ Cardinality(prev.rooms[users[last.id].roomId]) = 2

\* the callAccept branch has just run for a frame of a named sender
AcceptHandled == last.op = "callAccept" /\ prev.users[last.id].name # NoName
\* the room id the frame names: its roomId field, or the accepter's own
\* roomId when the field is no string
AcceptRoom ==
  IF last.data.msg.roomId # NoRoom THEN last.data.msg.roomId
  ELSE prev.users[last.id].roomId
\* 'from' is a live session, and its roomId and the accepter's are the room named
AcceptMatches ==
  /\ last.data.msg.from \in DOMAIN prev.users
  /\ AcceptRoom # NoRoom
  /\ prev.users[last.data.msg.from].roomId = AcceptRoom
  /\ prev.users[last.id].roomId = AcceptRoom
PeerJoineds(i) == {k \in FramesTo(i) : sent[k].type = "roomPeerJoined"}
RoomPeersFrames(i) == {k \in FramesTo(i) : sent[k].type = "roomPeers"}

\* C14: when a session accepts with callAccept {from, roomId} and the
\* caller's roomId and its own are roomId, every other member of that room
\* is sent exactly one roomPeerJoined with the accepter's id and name, the
\* accepter exactly one roomPeers that lists exactly the other members (id
\* and name), and no roomId and no membership changes.  A member of the room
\* is a live session whose roomId is the room's id.
AcceptAnnounced ==
  AcceptHandled /\ AcceptMatches =>
    LET u == last.id
        rid == AcceptRoom
        others == prev.rooms[rid] \ {u}
        peer == [id |-> u, name |-> prev.users[u].name]
    IN /\ Snapshot = prev
       /\ \A m \in others :
            /\ m \in Live
            /\ users[m].roomId = rid
            /\ users[m].ready =>
                 /\ Cardinality(PeerJoineds(m)) = 1
                 /\ \A k \in PeerJoineds(m) : sent[k].roomId = rid /\ sent[k].peer = peer
       /\ \A i \in Live \ others : PeerJoineds(i) = {}
       /\ Cardinality(RoomPeersFrames(u)) = 1
       /\ \A i \in Live \ {u} : RoomPeersFrames(i) = {}
       /\ \A k \in RoomPeersFrames(u) :
            /\ sent[k].roomId = rid
            /\ Len(sent[k].peers) = Cardinality(others)
            /\ {sent[k].peers[j] : j \in 1..Len(sent[k].peers)} =
                 {[id |-> m, name |-> prev.users[m].name] : m \in others \cap Live}

\* C15: a callAccept whose 'from' is no live session, or whose roomId is not
\* the caller's roomId or not the accepter's own, writes no roomPeerJoined
\* and no roomPeers to anyone; the accepter's roomId is cleared, and the
\* presence broadcast that follows shows it.
AcceptRefused ==
  AcceptHandled /\ ~AcceptMatches =>
    LET u == last.id IN
    /\ \A k \in 1..Len(sent) :
         /\ sent[k].type = "presence"
         /\ ListedAs(k, u) = {[id |-> u, name |-> users[u].name, busy |-> FALSE]}
    /\ Cardinality(Presences(u)) = 1
    /\ pushed = <<>>
    /\ DOMAIN users = DOMAIN prev.users
    /\ users[u] = [prev.users[u] EXCEPT !.roomId = NoRoom]
    /\ \A i \in Live \ {u} : users[i] = prev.users[i]
    /\ nameToId = prev.nameToId

\* a session outside the caller's room has named that room in a callAccept
AcceptedFromOutside ==
  /\ AcceptHandled
  /\ last.data.msg.from \in DOMAIN prev.users
  /\ last.data.msg.from # last.id
  /\ AcceptRoom # NoRoom
  /\ prev.users[last.data.msg.from].roomId = AcceptRoom
  /\ prev.users[last.id].roomId # AcceptRoom

\* the roomPeerLeft frames for leaver u of room rid that session i was sent
PeerLeftsOf(i, rid, u) ==
  {k \in PeerLefts(i) : sent[k].roomId = rid /\ sent[k].peerId = u}
CallRejecteds(i) ==
  {k \in FramesTo(i) : sent[k].type = "callRejected" /\ sent[k].reason = "rejected"}

\* the callReject branch has just run for a named session linked to a room
\* of three members or more
RejectInLargeRoom ==
  /\ last.op = "callReject"
  /\ prev.users[last.id].name # NoName
  /\ prev.users[last.id].roomId \in DOMAIN prev.rooms
  /\ last.id \in prev.rooms[prev.users[last.id].roomId]
  /\ Cardinality(prev.rooms[prev.users[last.id].roomId]) >= 3

\* C16: callReject by a member of a room of three or more removes the
\* rejecter alone: its roomId is cleared and it leaves the member set, the
\* room stays, every other member keeps roomId and membership and is sent
\* roomPeerLeft for the rejecter (open channels), and the session named in
\* 'from' is sent callRejected with reason 'rejected'.
RejectRemovesRejecter ==
  RejectInLargeRoom =>
    LET u == last.id
        rid == prev.users[u].roomId
        from == last.data.msg.from
    IN /\ users[u].roomId = NoRoom
       /\ DOMAIN rooms = DOMAIN prev.rooms
       /\ rooms[rid] = prev.rooms[rid] \ {u}
       /\ \A r \in DOMAIN rooms : r # rid => rooms[r] = prev.rooms[r]
       /\ DOMAIN users = DOMAIN prev.users
       /\ \A i \in Live \ {u} : users[i] = prev.users[i]
       /\ \A m \in rooms[rid] \cap Live :
            users[m].ready => Cardinality(PeerLeftsOf(m, rid, u)) = 1
       /\ from \in Live /\ users[from].ready => Cardinality(CallRejecteds(from)) = 1

\* the hangup branch has just run for a frame of a named sender
HangupHandled == last.op = "callHangup" /\ prev.users[last.id].name # NoName
\* every presence frame just written comes after every other frame
PresenceComesLast ==
  \A k, j \in 1..Len(sent) :
    sent[k].type = "presence" /\ sent[j].type # "presence" => j < k

\* C17: callHangup by a session in a room clears its roomId, takes it out of
\* the member set, sends each remaining member (open channels) a
\* roomPeerLeft with the room id and the leaver's id, dissolves the room when
\* one member or none remains, and only then broadcasts presence; callHangup
\* by a session in no room changes no roomId and no room.
HangupLeavesRoom ==
  HangupHandled =>
    LET u == last.id
        rid == prev.users[u].roomId
    IN IF rid = NoRoom
       THEN users = prev.users /\ rooms = prev.rooms
       ELSE LET remaining == prev.rooms[rid] \ {u} IN
            /\ users[u].roomId = NoRoom
            /\ IF Cardinality(remaining) <= 1
               THEN rid \notin DOMAIN rooms
               ELSE rid \in DOMAIN rooms /\ rooms[rid] = remaining
            /\ \A r \in DOMAIN prev.rooms : r # rid => r \in DOMAIN rooms /\ rooms[r] = prev.rooms[r]
            /\ \A m \in remaining \cap Live :
                 users[m].ready => Cardinality(PeerLeftsOf(m, rid, u)) = 1
            /\ PresenceComesLast
            /\ Cardinality(Presences(u)) = 1
            /\ \A k \in 1..Len(sent) :
                 sent[k].type = "presence" =>
                   /\ ListedAs(k, u) = {[id |-> u, name |-> users[u].name, busy |-> FALSE]}
                   /\ \A m \in remaining \cap Live :
                        ListedAs(k, m) = {[id |-> m, name |-> users[m].name,
                                           busy |-> users[m].roomId # NoRoom]}

\* a session has hung up in a room of three, which goes on with the other two
HangupInRoomOfThree ==
  /\ HangupHandled
  /\ prev.users[last.id].roomId \in DOMAIN rooms
  /\ Cardinality(prev.rooms[prev.users[last.id].roomId]) = 3
  /\ \A m \in rooms[prev.users[last.id].roomId] : m \in Live /\ users[m].ready

\* the disconnect handler has just run for a connected session that room rid
\* had as one of its two members, the other being a connected session
ClosedInRoomOfTwo(rid) ==
  /\ last.op \in {"close", "error"}
  /\ last.id \in DOMAIN prev.users
  /\ last.id \in prev.rooms[rid]
  /\ Cardinality(prev.rooms[rid]) = 2
  /\ prev.rooms[rid] \ {last.id} \subseteq Live

\* C18: when one member of a two-party room disconnects, the other member
\* ends with an empty roomId, the room is gone, and the other member is sent
\* (open channel), in this order, roomPeerLeft, callEnded reason 'alone',
\* the System chat "<name> left." and a presence frame that lists it with
\* busy:false and does not list the disconnected session.
PeerDisconnectEndsCall ==
  \A rid \in DOMAIN prev.rooms :
    ClosedInRoomOfTwo(rid) =>
      LET u == last.id IN
      /\ rid \notin DOMAIN rooms
      /\ \A m \in prev.rooms[rid] \ {u} :
           /\ users[m].roomId = NoRoom
           /\ users[m].ready =>
                LET got == SentTo(m) IN
                /\ Len(got) = 4
                /\ got[1].type = "roomPeerLeft"
                /\ got[1].roomId = rid
                /\ got[1].peerId = u
                /\ got[2].type = "callEnded"
                /\ got[2].reason = "alone"
                /\ got[3].type = "chat"
                /\ got[3].fromName = "System"
                /\ got[3].text = prev.users[u].name \o Left
                /\ got[4].type = "presence"
                /\ \A j \in 1..Len(got[4].users) :
                     /\ got[4].users[j].id # u
                     /\ got[4].users[j].id = m => ~got[4].users[j].busy
                /\ \E j \in 1..Len(got[4].users) : got[4].users[j].id = m

\* the chatSend branch has just run for a frame of a named sender whose text
\* has a private prefix; PmName is the name the prefix holds, PmBody the rest
ChatHandled == last.op = "chatSend" /\ prev.users[last.id].name # NoName
PmParsed ==
  LET raw == safeChatText(last.data.msg.text) IN
  IF raw = <<>> \/ StartsWith(raw, ReplyPrefix) THEN NoPm ELSE parsePrivatePrefix(raw)
PmHandled == ChatHandled /\ PmParsed.found
\* the live sessions that hold the name of the prefix
PmTargets == {t \in DOMAIN prev.users : prev.users[t].name = PmParsed.toName}
ChatFramesTo(i) == {k \in FramesTo(i) : sent[k].type = "chat"}

\* C19: a private chat, whose @name or @"name" prefix is the name of another
\* live session, is delivered to the sender and to that session (open
\* channels) and to nobody else: one chat frame each with private:true, the
\* ids and names of sender and recipient and the body without the prefix as
\* text; no other session is sent any frame.
PrivateChatToTwo ==
  PmHandled /\ PmTargets # {} /\ last.id \notin PmTargets =>
    LET u == last.id IN
    \E t \in PmTargets :
      LET frame(i) == [to |-> i, type |-> "chat", from |-> u,
                       fromName |-> prev.users[u].name, toId |-> t,
                       toName |-> prev.users[t].name, text |-> PmParsed.body,
                       private |-> TRUE]
      IN /\ PmTargets = {t}
         /\ sent = (IF users[u].ready THEN <<frame(u)>> ELSE <<>>)
                     \o (IF users[t].ready THEN <<frame(t)>> ELSE <<>>)
         /\ Snapshot = prev

\* a private chat with a quoted name has passed while a third named session
\* is connected
PrivateChatBesideThird ==
  /\ PmHandled
  /\ last.data.msg.text = Str(<<"@", "\"", "b", "\"", " ", " ", "h", " ">>)
  /\ Len(sent) = 2
  /\ sent[1].text = <<"h">>
  /\ \E i \in Live : i \notin {sent[1].to, sent[2].to} /\ users[i].ready /\ users[i].name # NoName

\* C20: a chatSend whose private prefix names no named live session is
\* answered with error PM_NOT_FOUND, one whose prefix names the sender with
\* error PM_SELF; the sender is sent that error frame alone and no session is
\* sent a chat frame.
PrivateChatRefused ==
  PmHandled /\ (PmTargets = {} \/ last.id \in PmTargets) =>
    /\ sent = << [to |-> last.id] @@
                 Err(IF PmTargets = {} THEN "PM_NOT_FOUND" ELSE "PM_SELF") >>
    /\ pushed = <<>>
    /\ Snapshot = prev

\* a private chat to a name nobody holds has been refused beside another session
PrivateChatToNobody ==
  /\ PmHandled
  /\ PmTargets = {}
  /\ Len(sent) = 1
  /\ sent[1].code = "PM_NOT_FOUND"
  /\ \E i \in Live : i # last.id /\ users[i].ready /\ users[i].name # NoName

\* ------------------------------------------------------------------ chat
\* SpecChat: connects, two names (one of them "reply"), chat texts with and
\* without the reply prefix, and disconnects
ReplyName == <<"r", "e", "p", "l", "y">>
ReplyText == ReplyPrefix \o <<"b", "]", "\n", "h">>
ChatNameInputs == {Str(ReplyName), Str(<<"b">>)}
ReplyChatInputs ==
  {Str(ReplyText), Str(<<"@">> \o ReplyName \o <<" ", "h">>), Str(<<"h">>), Str(<<" ">>)}
ReplyChatFrames == {Msg([type |-> "chatSend", text |-> t]) : t \in ReplyChatInputs}

NextChat ==
  \/ Connection /\ NoClock /\ NoTrace
  \/ \E u \in Ids, n \in ChatNameInputs : OnMessage(u, SetName(n), TRUE) /\ NoClock /\ NoTrace
  \/ \E u \in Ids, d \in ReplyChatFrames : OnMessage(u, d, TRUE) /\ NoClock /\ NoTrace
  \/ \E u \in Ids : Closing(u) /\ NoClock /\ NoTrace
  \/ \E u \in Ids : WsClose(u) /\ NoClock /\ NoTrace
  \/ Flush /\ NoClock /\ NoTrace

SpecChat == Init /\ [][NextChat]_vars

\* the named sessions when the last handler began, those of them whose
\* channel is open, in Map order
NamedBefore == {i \in DOMAIN prev.users : prev.users[i].name # NoName}
NamedOpenBefore == InOrder({i \in NamedBefore : prev.users[i].ready})
\* the public chat frame of sender u with the given text, as session i gets it
PublicChat(i, u, text) ==
  [to |-> i, type |-> "chat", from |-> u, fromName |-> prev.users[u].name,
   text |-> text, private |-> FALSE]
\* the text just handled begins with the reply prefix
ReplyChatHandled ==
  /\ ChatHandled
  /\ last.data.msg.text.isString
  /\ StartsWith(last.data.msg.text.chars, ReplyPrefix)
  /\ safeChatText(last.data.msg.text) # <<>>

\* C21: a valid chat text that begins with '@reply [' is no private message:
\* every named session (open channels) is sent it, the text as it came, as a
\* chat frame with private:false, and nothing else is written: no
\* PM_NOT_FOUND, no PM_SELF, no private chat, also when a session is named
\* 'reply'.
ReplyChatIsPublic ==
  ReplyChatHandled =>
    /\ sent = [k \in 1..Len(NamedOpenBefore) |->
                 PublicChat(NamedOpenBefore[k], last.id, last.data.msg.text.chars)]
    /\ Snapshot = prev

\* a reply text has been sent by one session while another is named 'reply'
ReplyChatBesideReply ==
  /\ ReplyChatHandled
  /\ \E t \in Live : t # last.id /\ users[t].name = ReplyName /\ users[t].ready
  /\ Len(sent) >= 2

\* the text just handled is valid and no private message
PublicChatHandled ==
  /\ ChatHandled
  /\ safeChatText(last.data.msg.text) # <<>>
  /\ ~PmParsed.found

\* C22: a valid chatSend that is no private message is delivered as one chat
\* frame with private:false to every named session with an open channel, the
\* sender among them, and to no session without a name; a push notification
\* is requested for every named session other than the sender.
PublicChatToNamed ==
  PublicChatHandled =>
    LET u == last.id
        text == safeChatText(last.data.msg.text)
    IN /\ \A i \in Live :
            Cardinality(FramesTo(i)) =
              IF users[i].name # NoName /\ users[i].ready THEN 1 ELSE 0
       /\ \A k \in 1..Len(sent) : sent[k] = PublicChat(sent[k].to, u, text)
       /\ {pushed[k].id : k \in 1..Len(pushed)} = NamedBefore \ {u}
       /\ Len(pushed) = Cardinality(NamedBefore \ {u})
       /\ \A k \in 1..Len(pushed) : pushed[k].tag = "lrcom-chat"
       /\ Snapshot = prev

\* a public chat has gone out while one session has no name and another
\* named session's channel is closing
PublicChatMixedAudience ==
  /\ PublicChatHandled
  /\ \E i \in Live : users[i].name = NoName /\ users[i].ready
  /\ \E i \in Live : users[i].name # NoName /\ ~users[i].ready
  /\ Len(sent) = 1

\* ------------------------------------------------------------------ presence
\* the named sessions of a users table with their busy flags
PresenceView(U) ==
  {[id |-> i, name |-> U[i].name, busy |-> U[i].roomId # NoRoom] :
     i \in {j \in DOMAIN U : U[j].name # NoName}}
\* the entries of the presence frame at position k of sent
Listed(k) == {sent[k].users[j] : j \in 1..Len(sent[k].users)}
PresenceFrames == {k \in 1..Len(sent) : sent[k].type = "presence"}
\* the last handler changed the named sessions or a busy flag
ViewChanged == last # Idle /\ PresenceView(prev.users) # PresenceView(users)

\* C23: a handler step that changes the set of named sessions or a busy flag
\* sends every named session with an open channel a presence frame in that
\* step, and every presence frame gives the names and busy flags as they are
\* after the step; so the last presence frame a named session got agrees
\* with the names and busy flags of the moment.
PresenceFollowsChange ==
  last # Idle =>
    /\ \A k \in PresenceFrames :
         {e \in Listed(k) : e.name # NoName} = PresenceView(users)
    /\ ViewChanged =>
         \A i \in Live : users[i].name # NoName /\ users[i].ready => Presences(i) # {}

\* a hangup has freed both members of a room while a third named session
\* looks on
HangupSeenByThird ==
  /\ ViewChanged
  /\ last.op = "callHangup"
  /\ Cardinality({i \in Live : users[i].name # NoName /\ users[i].ready}) = 3
  /\ Cardinality({i \in Live : prev.users[i].roomId # users[i].roomId}) = 2

\* C24: the users list of every presence frame holds exactly the named live
\* sessions, one entry {id, name, busy} each, busy being true exactly when
\* the session's roomId is not empty; sessions without a name are not listed.
PresenceListsNamed ==
  \A k \in PresenceFrames :
    /\ Listed(k) = PresenceView(users)
    /\ Len(sent[k].users) = Cardinality(PresenceView(users))

\* ------------------------------------------------------------------ the name gate
\* the types that are handled before the test of user.name
UngatedTypes == {"setName", "pushSubscribe", "pushUnsubscribe"}
\* the last handler got a frame that parsed, had a string type and passed the
\* rate limit
TypedHandled ==
  /\ last # Idle
  /\ "data" \in DOMAIN last
  /\ last.data.json /\ last.data.typed
  /\ last.op = last.data.msg.type
\* ... and its sender had no name, and its type is none of the ungated three
GatedFromUnnamed ==
  /\ TypedHandled
  /\ last.op \notin UngatedTypes
  /\ prev.users[last.id].name = NoName

\* C25: a frame of a session without a name whose type is not setName,
\* pushSubscribe or pushUnsubscribe is answered with one error frame NO_NAME
\* to its sender and nothing else: no frame to another session, no push, no
\* change of the sessions, the name index, the rooms or the push store.
NoNameAnswered ==
  GatedFromUnnamed =>
    /\ sent = <<[to |-> last.id] @@ Err("NO_NAME")>>
    /\ pushed = <<>>
    /\ Snapshot = prev

\* a session without a name calls a named session that is free and open
UnnamedCalledNamed ==
  /\ GatedFromUnnamed
  /\ last.op = "callStart"
  /\ last.data.msg.to \in DOMAIN prev.users
  /\ last.data.msg.to # last.id
  /\ prev.users[last.data.msg.to].name # NoName
  /\ prev.users[last.data.msg.to].roomId = NoRoom
  /\ prev.users[last.data.msg.to].ready

\* ------------------------------------------------------------------ hello
\* the sessions the last handler registered
Registered == Live \ DOMAIN prev.users

\* C26: the first frame the hub sends to a session is hello with the
\* session's id.  A session enters the registry in the step of its
\* connection handler only, and that step sends it hello first; a frame goes
\* only to a session that is or was in the registry, and an inbound frame is
\* handled only for a session that was registered before, so neither comes
\* before the hello.
HelloComesFirst ==
  last # Idle =>
    /\ \A k \in 1..Len(sent) : sent[k].to \in Live \cup DOMAIN prev.users
    /\ "data" \in DOMAIN last => last.id \in DOMAIN prev.users
    /\ \A i \in Registered :
         /\ last = [op |-> "connection", id |-> i]
         /\ sent # <<>>
         /\ sent[1] = [to |-> i, type |-> "hello", id |-> i]
         /\ \A k \in 2..Len(sent) : sent[k].to = i => sent[k].type # "hello"

\* a channel is accepted while a named session and a call exist
ConnectedBesideCall ==
  /\ last.op = "connection"
  /\ last.id \in Registered
  /\ rooms # <<>>
  /\ \E j \in Live : users[j].name # NoName /\ users[j].ready

\* ------------------------------------------------------------------ setName again
\* the last handler was setName, not rate limited
SetNameHandled == TypedHandled /\ last.op = "setName"
\* the canonical form of the name the last setName asked for
AskedName == safeName(last.data.msg.name)
\* the names the index gives to session u
NamesOf(N, u) == {n \in DOMAIN N : N[n] = u}
\* the session already held the name it asked for: this setName repeats the
\* one that gave it the name
SetNameRepeated ==
  /\ SetNameHandled
  /\ AskedName # NoName
  /\ prev.users[last.id].name = AskedName

\* C27: a setName that repeats the session's last successful setName is
\* answered with nameResult ok:true and the same canonical name; after it
\* the name index has one entry for the name and it maps to the session, and
\* the sessions and the name index are what they were after the first.
SetNameTwice ==
  SetNameRepeated =>
    /\ sent # <<>>
    /\ sent[1] = [to |-> last.id, type |-> "nameResult", ok |-> TRUE, name |-> AskedName]
    /\ AskedName \in DOMAIN nameToId
    /\ nameToId[AskedName] = last.id
    /\ NamesOf(nameToId, last.id) = {AskedName}
    /\ users = prev.users
    /\ nameToId = prev.nameToId

\* the repeated setName spells the name with blanks around it, while another
\* session holds another name
PaddedNameRepeated ==
  /\ SetNameRepeated
  /\ last.data.msg.name.chars # AskedName
  /\ \E j \in Live \ {last.id} : users[j].name # NoName

\* ------------------------------------------------------------------ renaming
\* SpecRename: sessions that take and change names while they call each
\* other; every client may ask for every one of four names
RenameInputs == {Str(<<"a">>), Str(<<"b">>), Str(<<"c">>), Str(<<"d">>)}
NextRename ==
  \/ Connection /\ NoClock /\ NoTrace
  \/ \E u \in Ids, n \in RenameInputs : OnMessage(u, SetName(n), TRUE) /\ NoClock /\ NoTrace
  \/ \E u \in Ids, d \in CallStartFrames : OnMessage(u, d, TRUE) /\ NoClock /\ NoTrace
  \/ \E u \in Ids, d \in HangupFrames : OnMessage(u, d, TRUE) /\ NoClock /\ NoTrace
  \/ Flush /\ NoClock /\ NoTrace

SpecRename == Init /\ [][NextRename]_vars

\* the name the last setName asked for was free for its sender
AskedNameFree ==
  /\ SetNameHandled
  /\ AskedName # NoName
  /\ AskedName \in DOMAIN prev.nameToId => prev.nameToId[AskedName] = last.id
\* a named session asked for another name, and the name was free
Renamed ==
  /\ AskedNameFree
  /\ prev.users[last.id].name # NoName
  /\ prev.users[last.id].name # AskedName

\* C28: when a named session asks for another name that is free, the step
\* removes the index entry of the old name and adds the one of the new name,
\* and changes nothing else: not the session's roomId, not the rooms.  At
\* every frame boundary a named session has exactly one index entry, its
\* name's; and a setName for a name without an entry succeeds, so the old
\* name can be claimed by another session at once.
RenameMovesEntry ==
  /\ \A u \in Live : users[u].name # NoName => NamesOf(nameToId, u) = {users[u].name}
  /\ AskedNameFree =>
       /\ users[last.id].name = AskedName
       /\ nameToId[AskedName] = last.id
  /\ Renamed =>
       /\ prev.users[last.id].name \notin DOMAIN nameToId
       /\ nameToId = MapSet(MapDelete(prev.nameToId, prev.users[last.id].name),
                            AskedName, last.id)
       /\ users = [prev.users EXCEPT ![last.id].name = AskedName]
       /\ rooms = prev.rooms
       /\ pushSubscriptions = prev.pushSubscriptions

\* a session in a call of two takes another name while a third session is
\* named
RenamedInCall ==
  /\ Renamed
  /\ users[last.id].roomId # NoRoom
  /\ users[last.id].roomId \in DOMAIN rooms
  /\ Cardinality(rooms[users[last.id].roomId]) = 2
  /\ Cardinality({j \in Live : users[j].name # NoName}) = 3

\* ------------------------------------------------------------------ push store
\* SpecPush: the hub with or without VAPID keys; sessions take their own
\* names, call each other and hang up, and subscribe and unsubscribe in
\* every state
InitPush == Start /\ pushEnabled \in BOOLEAN
PushStoreFrames ==
  {Msg([type |-> "pushSubscribe", subscription |-> s]) : s \in Subs \cup {NoSub}}
    \cup {Msg([type |-> "pushUnsubscribe"])}
NextPush ==
  \/ Connection /\ NoClock /\ NoTrace
  \/ \E u \in Ids : OnMessage(u, SetName(Str(NameOf(u))), TRUE) /\ NoClock /\ NoTrace
  \/ \E u \in Ids, d \in PushStoreFrames : OnMessage(u, d, TRUE) /\ NoClock /\ NoTrace
  \/ \E u \in Ids, d \in CallStartFrames : OnMessage(u, d, TRUE) /\ NoClock /\ NoTrace
  \/ \E u \in Ids, d \in HangupFrames : OnMessage(u, d, TRUE) /\ NoClock /\ NoTrace
  \/ Flush /\ NoClock /\ NoTrace

SpecPush == InitPush /\ [][NextPush]_vars

\* the last handler was pushSubscribe or pushUnsubscribe, not rate limited
PushSubscribeHandled == TypedHandled /\ last.op = "pushSubscribe"
PushUnsubscribeHandled == TypedHandled /\ last.op = "pushUnsubscribe"
\* the push store agrees with the one before the handler but for session u
SameStoreBut(u) ==
  \A j \in Ids \ {u} :
    /\ j \in DOMAIN pushSubscriptions <=> j \in DOMAIN prev.pushSubscriptions
    /\ j \in DOMAIN pushSubscriptions => pushSubscriptions[j] = prev.pushSubscriptions[j]

\* C29: a pushSubscribe or pushUnsubscribe that passes the rate limit is
\* handled whether its sender has a name or a call or neither; it sends no
\* frame and no push, and changes nothing but the sender's entry of the push
\* store.  pushSubscribe stores the subscription only when push is enabled
\* (and leaves the store alone when it is not), pushUnsubscribe removes the
\* entry, and without an entry pushUnsubscribe changes nothing.
PushStoreOwnEntry ==
  PushSubscribeHandled \/ PushUnsubscribeHandled =>
    /\ sent = <<>>
    /\ pushed = <<>>
    /\ users = prev.users /\ nameToId = prev.nameToId /\ rooms = prev.rooms
    /\ SameStoreBut(last.id)
    /\ PushSubscribeHandled =>
         /\ ~pushEnabled => pushSubscriptions = prev.pushSubscriptions
         /\ pushEnabled /\ last.data.msg.subscription # NoSub =>
              pushSubscriptions =
                MapSet(prev.pushSubscriptions, last.id, last.data.msg.subscription)
    /\ PushUnsubscribeHandled =>
         /\ last.id \notin DOMAIN pushSubscriptions
         /\ last.id \notin DOMAIN prev.pushSubscriptions => Snapshot = prev

\* a session in a call replaces its stored subscription, beside a session
\* without a name that has one as well
SubscribedInCall ==
  /\ PushSubscribeHandled
  /\ pushEnabled
  /\ users[last.id].roomId # NoRoom
  /\ last.id \in DOMAIN prev.pushSubscriptions
  /\ pushSubscriptions[last.id] # prev.pushSubscriptions[last.id]
  /\ \E j \in Live : users[j].name = NoName /\ j \in DOMAIN pushSubscriptions

\* ------------------------------------------------------------------ protocol violations
\* SpecViolations: sessions with and without names and calls that send text
\* that is no JSON, values without a type, unknown types and chat texts that
\* safeChatText refuses
LongText == [i \in 1..(MaxChatLen + 1) |-> "h"]
BadChatInputs ==
  {NotString, Str(<<>>), Str(<<" ">>), Str(<<"h", "\f", "h">>), Str(LongText)}
BadChatFrames == {Msg([type |-> "chatSend", text |-> t]) : t \in BadChatInputs}
NextViolations ==
  \/ Connection /\ NoClock /\ NoTrace
  \/ \E u \in Ids : OnMessage(u, SetName(Str(NameOf(u))), TRUE) /\ NoClock /\ NoTrace
  \/ \E u \in Ids, d \in CallStartFrames : OnMessage(u, d, TRUE) /\ NoClock /\ NoTrace
  \/ \E u \in Ids, d \in OtherFrames : OnMessage(u, d, TRUE) /\ NoClock /\ NoTrace
  \/ \E u \in Ids, d \in BadChatFrames : OnMessage(u, d, TRUE) /\ NoClock /\ NoTrace
  \/ Flush /\ NoClock /\ NoTrace

SpecViolations == Init /\ [][NextViolations]_vars

\* the types the handler knows
KnownTypes ==
  UngatedTypes \cup {"callStart", "callReject", "callAccept", "signal", "callHangup", "chatSend"}
\* a named session sent a chat text that is not valid
BadChatHandled ==
  /\ TypedHandled
  /\ last.op = "chatSend"
  /\ prev.users[last.id].name # NoName
  /\ last.data.msg.text \in BadChatInputs
\* a named session sent a frame of a type the handler does not know
UnknownTypeHandled ==
  /\ TypedHandled
  /\ last.op \notin KnownTypes
  /\ prev.users[last.id].name # NoName
\* the last frame broke the protocol, and the code the hub answers it with
ViolationHandled ==
  \/ last.op = "badJson"
  \/ last.op = "badMessage"
  \/ UnknownTypeHandled
  \/ BadChatHandled
ViolationCode ==
  IF last.op = "badJson" THEN "BAD_JSON"
  ELSE IF last.op = "badMessage" THEN "BAD_MESSAGE"
  ELSE IF last.op = "chatSend" THEN "BAD_CHAT"
  ELSE "UNKNOWN_TYPE"

\* C30: text that is no JSON is answered with error BAD_JSON, a value
\* without a string type with BAD_MESSAGE, a type the handler does not know,
\* from a named session, with UNKNOWN_TYPE, and a chat text that is not
\* valid, from a named session, with BAD_CHAT; the error frame to the sender
\* is all the step does: the channel stays open, the session stays in the
\* registry with its name and roomId, and no table changes.
ViolationAnswered ==
  ViolationHandled =>
    /\ sent = <<[to |-> last.id] @@ Err(ViolationCode)>>
    /\ pushed = <<>>
    /\ Snapshot = prev
    /\ last.id \in Live
    /\ users[last.id].ready

\* a session in a call sends a chat text with a control character in it
ControlCharInCall ==
  /\ BadChatHandled
  /\ last.data.msg.text = Str(<<"h", "\f", "h">>)
  /\ users[last.id].roomId # NoRoom

\* ------------------------------------------------------------------ private prefix
\* SpecQuoted: sessions named "b", "b s" and "h" that send chat texts with
\* quoted and plain private prefixes, well formed and not
QuotedNameInputs == {Str(<<"b">>), Str(<<"b", " ", "s">>), Str(<<"h">>)}
QuotedChatInputs ==
  {Str(<<"@", "\"", "b", " ", "s", "\"", " ", "h">>),
   Str(<<"@", "\"", "b", "\"", " ", "h">>),
   Str(<<"@", "\"", "b", " ", "s", "\"", " ", " ", "h", " ", "h">>),
   Str(<<"@", "\"", "b", " ", "s", "\"", "h">>),
   Str(<<"@", "\"", "b", " ", "h">>),
   Str(<<"@", "\"", "\"", " ", "h">>),
   Str(<<"@", "\"", "b", "\"">>),
   Str(<<"@", "b", " ", "h">>),
   Str(<<"@", "b", " ", "s", " ", "h">>),
   Str(<<"@", "b">>),
   Str(<<"@", " ", "h">>),
   Str(<<"h", " ", "@", "b", " ", "h">>)}
QuotedChatFrames == {Msg([type |-> "chatSend", text |-> t]) : t \in QuotedChatInputs}
NextQuoted ==
  \/ Connection /\ NoClock /\ NoTrace
  \/ \E u \in Ids, n \in QuotedNameInputs : OnMessage(u, SetName(n), TRUE) /\ NoClock /\ NoTrace
  \/ \E u \in Ids, d \in QuotedChatFrames : OnMessage(u, d, TRUE) /\ NoClock /\ NoTrace
  \/ Flush /\ NoClock /\ NoTrace

SpecQuoted == Init /\ [][NextQuoted]_vars

\* the shape @"<name>" <body>: k is the place of the first quote after the
\* opening one, a blank follows it, and the rest is not blank
QuotedAt(t, k) ==
  /\ t[1] = "@" /\ t[2] = "\""
  /\ t[k] = "\""
  /\ \A j \in 3..(k - 1) : t[j] # "\""
  /\ k > 3
  /\ t[k + 1] = " "
  /\ Trim(SubSeq(t, k + 2, Len(t))) # <<>>
\* the shape @<name> <body>: k is the place of the first blank, the name
\* before it and the body after it are not empty
PlainAt(t, k) ==
  /\ t[1] = "@"
  /\ t[k] = " "
  /\ \A j \in 1..(k - 1) : t[j] # " "
  /\ k > 2
  /\ Trim(SubSeq(t, k + 1, Len(t))) # <<>>
QuotedPlaces(t) == {k \in 3..(Len(t) - 1) : QuotedAt(t, k)}
PlainPlaces(t) == {k \in 2..Len(t) : PlainAt(t, k)}
\* the pair the two shapes give for a text, the quoted shape first
PrefixShape(t) ==
  IF QuotedPlaces(t) # {}
  THEN LET k == CHOOSE k \in QuotedPlaces(t) : TRUE
       IN [found |-> TRUE, toName |-> SubSeq(t, 3, k - 1),
           body |-> Trim(SubSeq(t, k + 2, Len(t)))]
  ELSE IF PlainPlaces(t) # {}
  THEN LET k == CHOOSE k \in PlainPlaces(t) : TRUE
       IN [found |-> TRUE, toName |-> SubSeq(t, 2, k - 1),
           body |-> Trim(SubSeq(t, k + 1, Len(t)))]
  ELSE NoPm

\* a named session sent one of the chat texts with a prefix to try
QuotedChatHandled ==
  /\ TypedHandled
  /\ ChatHandled
  /\ last.data.msg.text \in QuotedChatInputs
\* the text of the last chatSend, trimmed
HandledText == Trim(last.data.msg.text.chars)
\* the sessions that hold the name the shapes give for the last chat text
ShapeTargets == {t \in DOMAIN prev.users : prev.users[t].name = PrefixShape(HandledText).toName}

\* C31: a chat text is handled as a private message exactly when it has the
\* shape @"<name>" <body> or the shape @<name> <body>, with the name and the
\* body the shape gives: it goes to the session of that name with the body
\* as text, is refused with PM_NOT_FOUND when no session has that name and
\* with PM_SELF when the sender has it; a text of neither shape is a public
\* chat.  So @"b s" h reaches the session named "b s" and is refused when
\* only a session named "b" exists.
PrefixShapesParsed ==
  QuotedChatHandled =>
    LET u == last.id
        pm == PrefixShape(HandledText)
    IN IF ~pm.found
       THEN \A k \in 1..Len(sent) : sent[k] = PublicChat(sent[k].to, u, HandledText)
       ELSE IF ShapeTargets = {}
       THEN sent = <<[to |-> u] @@ Err("PM_NOT_FOUND")>>
       ELSE IF u \in ShapeTargets
       THEN sent = <<[to |-> u] @@ Err("PM_SELF")>>
       ELSE /\ Len(sent) = 2
            /\ \A k \in 1..2 :
                 /\ sent[k].type = "chat" /\ sent[k].private
                 /\ sent[k].toId \in ShapeTargets
                 /\ sent[k].toName = pm.toName
                 /\ sent[k].text = pm.body

\* ------------------------------------------------------------------ joining a room
\* SpecJoin: clients that answer every incomingCall at most once, with the
\* caller and the room the incomingCall gave them, and that may hang up.
\* invited and told follow the frames the hub writes.
\* the places of the frames of a type among the frames just written
Written(type) == {k \in 1..Len(sent') : sent'[k].type = type}
\* the sessions that are in a call after the step
InCallAfter == {i \in DOMAIN users' : users'[i].roomId # NoRoom}
\* the clients' records after a step in which client a answered (NoId: nobody)
Trace(a) ==
  /\ invited' =
       [i \in Ids |->
          IF i \notin InCallAfter THEN NoInvite
          ELSE IF \E k \in Written("incomingCall") : sent'[k].to = i
          THEN LET k == CHOOSE k \in Written("incomingCall") : sent'[k].to = i
               IN [from |-> sent'[k].from, roomId |-> sent'[k].roomId]
          ELSE IF i = a THEN NoInvite
          ELSE invited[i]]
  /\ told' = {p \in told : p[1] \in InCallAfter /\ p[2] \in InCallAfter}
               \cup {<<sent'[k].to, sent'[k].peer.id>> : k \in Written("roomPeerJoined")}
  /\ UNCHANGED inflight
\* the callAccept of a client that answers its incomingCall
Answer(u) == Msg([type |-> "callAccept", from |-> invited[u].from, roomId |-> invited[u].roomId])
NextJoin ==
  \/ Connection /\ NoClock /\ NoTrace
  \/ \E u \in Ids : OnMessage(u, SetName(Str(NameOf(u))), TRUE) /\ NoClock /\ NoTrace
  \/ \E u \in Ids, d \in CallStartFrames : OnMessage(u, d, TRUE) /\ NoClock /\ Trace(NoId)
  \/ \E u \in Ids : invited[u] # NoInvite /\ OnMessage(u, Answer(u), TRUE) /\ NoClock /\ Trace(u)
  \/ \E u \in Ids, d \in HangupFrames : OnMessage(u, d, TRUE) /\ NoClock /\ Trace(NoId)
  \/ Flush /\ NoClock /\ NoTrace

SpecJoin == Init /\ [][NextJoin]_vars

\* C32: among the sessions of a room, each of which answers an incomingCall
\* at most once, roomPeerJoined goes one way for every pair: when x has
\* been told that y joined, y has not been told that x joined.
PeerJoinedOneWay ==
  \A p \in told : <<p[2], p[1]>> \notin told

\* ------------------------------------------------------------------ rooms apart
\* the rooms that have session i among their members
RoomsOf(R, i) == {r \in DOMAIN R : i \in R[r]}

\* C33: at every frame boundary a session id is among the members of one
\* room at most.
OneRoomPerSession ==
  \A i \in Ids : Cardinality(RoomsOf(rooms, i)) <= 1

\* the rooms the last handler dissolved
Dissolved == DOMAIN prev.rooms \ DOMAIN rooms

\* C34: a handler that dissolves a room clears the roomId of, and sends
\* callEnded with reason alone to, only sessions whose roomId named a room
\* it dissolved: a session other than the frame's sender whose roomId named
\* a room that is still there keeps its roomId and is sent no callEnded.
DissolveSparesOthers ==
  last # Idle =>
    \A i \in (Live \cap DOMAIN prev.users) \ {last.id} :
      /\ prev.users[i].roomId # NoRoom /\ prev.users[i].roomId \notin Dissolved =>
           users[i].roomId = prev.users[i].roomId
      /\ AloneEnds(i) # {} => prev.users[i].roomId \in Dissolved

\* the live sessions other than i whose roomId is that of session i
Counterparts(i) == {j \in Live \ {i} : users[j].roomId = users[i].roomId}

\* C35: at every frame boundary a session with a roomId shares it with at
\* least one other live session.
BusyHasCounterpart ==
  \A i \in Live : users[i].roomId # NoRoom => Counterparts(i) # {}

\* the rooms that had both sessions among their members when the last
\* handler began
SharedRooms(i, j) == RoomsOf(prev.rooms, i) \cap RoomsOf(prev.rooms, j)

\* C36: a callRejected frame is sent to a session only when the sender of
\* the callReject was, when the frame was handled, a member of a room that
\* session was a member of as well.
RejectedWithinRoom ==
  last # Idle =>
    \A i \in Live : CallRejecteds(i) # {} => SharedRooms(i, last.id) # {}

\* ------------------------------------------------------------------ calls need names
\* the frames that only named sessions are to get
NamedOnlyTypes == {"chat", "incomingCall", "signal"}

\* C37: a live session that had a name when the last handler began has one
\* after it; every live session with a roomId, and every live session among
\* the members of a room, has a name; and every chat, incomingCall and
\* signal frame goes to a session that has a name.
InCallIsNamed ==
  /\ \A i \in Live : users[i].roomId # NoRoom => users[i].name # NoName
  /\ \A r \in DOMAIN rooms : \A m \in rooms[r] \cap Live : users[m].name # NoName
  /\ last # Idle =>
       /\ \A i \in Live \cap DOMAIN prev.users :
            prev.users[i].name # NoName => users[i].name # NoName
       /\ \A k \in 1..Len(sent) :
            sent[k].type \in NamedOnlyTypes =>
              sent[k].to \in Live /\ users[sent[k].to].name # NoName

\* a session in a call of two has called a session without a name
UnnamedCalledFromCall ==
  /\ TypedHandled
  /\ last.op = "callStart"
  /\ last.data.msg.to \in Live
  /\ users[last.data.msg.to].name = NoName
  /\ users[last.data.msg.to].ready
  /\ users[last.id].roomId # NoRoom
  /\ Counterparts(last.id) # {}

\* ------------------------------------------------------------------ the limit lifts
\* a frame of session u arrives more than RateWindowMs after its windowStart
WindowOver(u) == rl[u].init /\ now - rl[u].windowStart > RateWindowMs

\* C38: whatever the counter of a session's window has reached, a frame
\* that arrives more than RateWindowMs after windowStart starts a new window
\* at the time of its arrival, counts as the first frame of that window and
\* is parsed and dispatched.
RateLimitLifts ==
  [][\A u \in Ids :
       rl'[u] # rl[u] /\ WindowOver(u) =>
         /\ rl'[u] = [init |-> TRUE, windowStart |-> now, count |-> 1]
         /\ last'.id = u
         /\ last'.op = OpOf(last'.data, TRUE)]_vars

\* a session that used up the allowance of its first window has a frame
\* handled in a window that began later than RateWindowMs
HandledInLaterWindow ==
  /\ last.op = "setName"
  /\ probe.on /\ probe.id = last.id /\ probe.start = 0
  /\ probe.count = RateMaxFrames
  /\ now > RateWindowMs
  /\ rl[last.id] = [init |-> TRUE, windowStart |-> now, count |-> 1]

\* ------------------------------------------------------------------ the push sink
\* SpecSink: sendPushToUser beyond its await.  A call to a session with a
\* stored subscription leaves a webpush.sendNotification in flight; the
\* sink settles it later, in a turn of its own, while frames go on being
\* handled.
\* the sends the last handler handed to the sink
Handed ==
  {[id |-> pushed'[k].id, sub |-> pushed'[k].sub] :
     k \in {j \in 1..Len(pushed') : pushed'[j].sub # NoSub}}
TraceSink ==
  /\ inflight' = inflight \cup Handed
  /\ UNCHANGED <<invited, told>>
\* the catch block of sendPushToUser with statusCode 404 or 410
SinkFailed(f) ==
  /\ last = Idle
  /\ f \in inflight
  /\ pushSubscriptions' = MapDelete(pushSubscriptions, f.id)
  /\ inflight' = inflight \ {f}
  /\ last' = [op |-> "pushFailed", id |-> f.id, sub |-> f.sub]
  /\ sent' = <<>>
  /\ pushed' = <<>>
  /\ prev' = Snapshot
  /\ UNCHANGED <<users, nameToId, rooms, pushEnabled, nextId, invited, told>>
\* the send resolves, or fails with another status
SinkSettled(f) ==
  /\ last = Idle
  /\ f \in inflight
  /\ inflight' = inflight \ {f}
  /\ last' = [op |-> "pushSettled", id |-> f.id, sub |-> f.sub]
  /\ sent' = <<>>
  /\ pushed' = <<>>
  /\ prev' = Snapshot
  /\ UNCHANGED <<users, nameToId, rooms, pushSubscriptions, pushEnabled, nextId,
                 invited, told>>
NextSink ==
  \/ Connection /\ NoClock /\ NoTrace
  \/ \E u \in Ids : OnMessage(u, SetName(Str(NameOf(u))), TRUE) /\ NoClock /\ TraceSink
  \/ \E u \in Ids, d \in PushStoreFrames : OnMessage(u, d, TRUE) /\ NoClock /\ TraceSink
  \/ \E u \in Ids, d \in CallStartFrames : OnMessage(u, d, TRUE) /\ NoClock /\ TraceSink
  \/ \E u \in Ids, d \in HangupFrames : OnMessage(u, d, TRUE) /\ NoClock /\ TraceSink
  \/ \E f \in inflight : SinkFailed(f) /\ NoClock
  \/ \E f \in inflight : SinkSettled(f) /\ NoClock
  \/ Flush /\ NoClock /\ NoTrace

SpecSink == InitPush /\ [][NextSink]_vars

\* C39: a 404 or 410 answer to a push send removes from the push store the
\* subscription that send used and no other: when the session's entry is
\* another subscription by then, the store is as it was; and a frame is
\* handled whether or not a send is in flight.
SinkFailureRemovesOwn ==
  last.op = "pushFailed" =>
    pushSubscriptions =
      IF last.id \in DOMAIN prev.pushSubscriptions
           /\ prev.pushSubscriptions[last.id] = last.sub
      THEN MapDelete(prev.pushSubscriptions, last.id)
      ELSE prev.pushSubscriptions

\* ------------------------------------------------------------------ the pairwise hub
\* src/server/index.js: a session has inCallWith, the id of the session it
\* rings or talks to, where the hub above has roomId.  users holds records
\* [name, inCallWith, ready] here; rooms and the push store stay empty.
NoPeer == NoId

PairEff(U, N, out) == [users |-> U, nameToId |-> N, out |-> out]
PairReply(u, frame) == PairEff(users, nameToId, send(users, u, frame))

\* broadcastPresence(): busy is Boolean(u.inCallWith)
PairPresenceList(U) ==
  LET ord == InOrder(DOMAIN U) IN
  [i \in 1..Len(ord) |->
     [id |-> ord[i], name |-> U[ord[i]].name, busy |-> U[ord[i]].inCallWith # NoPeer]]
PairBroadcastPresence(U) ==
  LET ord == InOrder(DOMAIN U) IN
  Concat([i \in 1..Len(ord) |->
     send(U, ord[i], [type |-> "presence", users |-> PairPresenceList(U)])])

\* closeUser(userId)
PairCloseUser(u) ==
  IF u \notin Live THEN PairEff(users, nameToId, <<>>)
  ELSE
    LET name == users[u].name
        peer == users[u].inCallWith
        told1 == peer # NoPeer /\ peer \in Live
        U1 == IF told1 THEN [users EXCEPT ![peer].inCallWith = NoPeer] ELSE users
        ended == IF told1 THEN send(U1, peer, [type |-> "callEnded", reason |-> "peer_left"])
                 ELSE <<>>
        U2 == MapDelete(U1, u)
        N2 == IF name # NoName /\ name \in DOMAIN nameToId /\ nameToId[name] = u
              THEN MapDelete(nameToId, name)
              ELSE nameToId
    IN PairEff(U2, N2,
               ended \o (IF name # NoName THEN broadcastSystem(U2, name \o Left) ELSE <<>>)
                     \o PairBroadcastPresence(U2))

\* setName
PairOnSetName(u, msg) ==
  LET name == safeName(msg.name) IN
  IF name = NoName
  THEN PairReply(u, [type |-> "nameResult", ok |-> FALSE, reason |-> "invalid"])
  ELSE IF name \in DOMAIN nameToId /\ nameToId[name] # u
  THEN PairReply(u, [type |-> "nameResult", ok |-> FALSE, reason |-> "taken"])
  ELSE
    LET old == users[u].name
        N1 == IF old # NoName /\ old \in DOMAIN nameToId /\ nameToId[old] = u
              THEN MapDelete(nameToId, old)
              ELSE nameToId
        U == [users EXCEPT ![u].name = name]
    IN PairEff(U, MapSet(N1, name, u),
               send(U, u, [type |-> "nameResult", ok |-> TRUE, name |-> name])
                 \o broadcastSystem(U, name \o Joined)
                 \o PairBroadcastPresence(U))

\* callStart
PairOnCallStart(u, msg) ==
  LET to == msg.to IN
  IF to = NoId \/ to \notin Live
  THEN PairReply(u, [type |-> "callStartResult", ok |-> FALSE, reason |-> "not_found"])
  ELSE IF to = u
  THEN PairReply(u, [type |-> "callStartResult", ok |-> FALSE, reason |-> "self"])
  ELSE IF users[to].name = NoName
  THEN PairReply(u, [type |-> "callStartResult", ok |-> FALSE, reason |-> "not_ready"])
  ELSE IF users[u].inCallWith # NoPeer \/ users[to].inCallWith # NoPeer
  THEN PairReply(u, [type |-> "callStartResult", ok |-> FALSE, reason |-> "busy"])
  ELSE
    LET U == [users EXCEPT ![u].inCallWith = to, ![to].inCallWith = u]
    IN PairEff(U, nameToId,
               send(U, to, [type |-> "incomingCall", from |-> u, fromName |-> users[u].name])
                 \o send(U, u, [type |-> "callStartResult", ok |-> TRUE])
                 \o PairBroadcastPresence(U))

\* callReject
PairOnCallReject(u, msg) ==
  LET known == msg.from # NoId /\ msg.from \in Live
      U1 == IF known THEN [users EXCEPT ![msg.from].inCallWith = NoPeer] ELSE users
      rejected == IF known
                  THEN send(U1, msg.from, [type |-> "callRejected", reason |-> "rejected"])
                  ELSE <<>>
      U2 == [U1 EXCEPT ![u].inCallWith = NoPeer]
  IN PairEff(U2, nameToId, rejected \o PairBroadcastPresence(U2))

\* callAccept
PairOnCallAccept(u, msg) ==
  IF msg.from = NoId \/ msg.from \notin Live
  THEN LET U == [users EXCEPT ![u].inCallWith = NoPeer]
       IN PairEff(U, nameToId, PairBroadcastPresence(U))
  ELSE PairReply(msg.from, [type |-> "callAccepted", by |-> u, byName |-> users[u].name])

\* callHangup
PairOnCallHangup(u, msg) ==
  LET peer == users[u].inCallWith
      told1 == peer # NoPeer /\ peer \in Live
      U1 == IF told1 THEN [users EXCEPT ![peer].inCallWith = NoPeer] ELSE users
      ended == IF told1 THEN send(U1, peer, [type |-> "callEnded", reason |-> "hangup"])
               ELSE <<>>
      U2 == [U1 EXCEPT ![u].inCallWith = NoPeer]
  IN PairEff(U2, nameToId, ended \o PairBroadcastPresence(U2))

\* the handler after the rate-limit check and the parse, for the frames of
\* setName and of the four call types
PairDispatch(u, msg) ==
  IF msg.type = "setName" THEN PairOnSetName(u, msg)
  ELSE IF users[u].name = NoName THEN PairReply(u, Err("NO_NAME"))
  ELSE IF msg.type = "callStart" THEN PairOnCallStart(u, msg)
  ELSE IF msg.type = "callReject" THEN PairOnCallReject(u, msg)
  ELSE IF msg.type = "callAccept" THEN PairOnCallAccept(u, msg)
  ELSE IF msg.type = "callHangup" THEN PairOnCallHangup(u, msg)
  ELSE PairReply(u, Err("UNKNOWN_TYPE"))

PairCommit(e) ==
  /\ users' = e.users
  /\ nameToId' = e.nameToId
  /\ sent' = e.out
  /\ pushed' = <<>>
  /\ prev' = Snapshot
  /\ UNCHANGED <<rooms, pushSubscriptions, pushEnabled>>

\* wss.on('connection')
PairConnection ==
  /\ last = Idle
  /\ nextId < MaxConn
  /\ LET userId == nextId + 1
         U == MapSet(users, userId, [name |-> NoName, inCallWith |-> NoPeer, ready |-> TRUE])
     IN /\ PairCommit(PairEff(U, nameToId, send(U, userId, [type |-> "hello", id |-> userId])))
        /\ nextId' = userId
        /\ last' = [op |-> "connection", id |-> userId]

\* ws.on('message')
PairOnMessage(u, data) ==
  /\ last = Idle
  /\ u \in Live
  /\ users[u].ready
  /\ PairCommit(PairDispatch(u, data.msg))
  /\ last' = [op |-> data.msg.type, id |-> u, data |-> data]
  /\ UNCHANGED nextId

\* ws.on('close') / ws.on('error')
PairChannelEvent(u) ==
  /\ last = Idle
  /\ u <= nextId
  /\ PairCommit(PairCloseUser(u))
  /\ last' = [op |-> "close", id |-> u]
  /\ UNCHANGED nextId

PairRejectFrames == {Msg([type |-> "callReject", from |-> i]) : i \in ClientIds}
PairAcceptFrames == {Msg([type |-> "callAccept", from |-> i]) : i \in ClientIds}
NextPair ==
  \/ PairConnection /\ NoClock /\ NoTrace
  \/ \E u \in Ids : PairOnMessage(u, SetName(Str(NameOf(u)))) /\ NoClock /\ NoTrace
  \/ \E u \in Ids, d \in CallStartFrames : PairOnMessage(u, d) /\ NoClock /\ NoTrace
  \/ \E u \in Ids, d \in PairRejectFrames : PairOnMessage(u, d) /\ NoClock /\ NoTrace
  \/ \E u \in Ids, d \in PairAcceptFrames : PairOnMessage(u, d) /\ NoClock /\ NoTrace
  \/ \E u \in Ids, d \in HangupFrames : PairOnMessage(u, d) /\ NoClock /\ NoTrace
  \/ \E u \in Ids : PairChannelEvent(u) /\ NoClock /\ NoTrace
  \/ Flush /\ NoClock /\ NoTrace

SpecPair == Init /\ [][NextPair]_vars

\* C40: in the pairwise hub, at every frame boundary, a session u whose
\* inCallWith is v has a live session v whose inCallWith is u, whatever
\* 'from' the callAccept and callReject frames carry.
PairingSymmetric ==
  \A u \in Live :
    users[u].inCallWith # NoPeer =>
      /\ users[u].inCallWith \in Live
      /\ users[users[u].inCallWith].inCallWith = u
====
